---- MODULE Spec2Model ----
(***************************************************************************)
(* A model of the leanblueprint -> lean-architect converter                *)
(* (scripts/convert): topological_sort, the source splicer                 *)
(* (split_declaration, insert_docstring_and_attribute, modify_source),     *)
(* write_blueprint_attributes, convert_ref_to_verb and read_latex_file.    *)
(*                                                                         *)
(* Text is a sequence of symbols.  A symbol is one character ("a", "\n",   *)
(* " ", "[" ...) or one fixed piece of text that the code only ever        *)
(* handles as a unit ("to_additive", "import ", "blueprint", "sorry" ...). *)
(* Lengths, lines and columns are counted in symbols.                      *)
(***************************************************************************)
EXTENDS Integers, Sequences, FiniteSets, TLC

VARIABLES
    pc,         \* position of the running operation
    nodes,      \* the node list handed to the operation (list[NodeWithPos])
    visited,    \* topological_sort: visited
    result,     \* topological_sort: result (node names, in emission order)
    stack,      \* topological_sort: the active calls of visit()
    idx,        \* topological_sort: position of `for node, _ in data`
    files,      \* the file system: path -> text, for the files that exist
    ms,         \* modify_source: the arguments and locals of the running call
    warned_to_additive,  \* the module-level latch of modify_lean.py
    runs,       \* how many times the declaration has been spliced so far
    target,     \* the text before, of and after the declaration being spliced
    spliceLog,  \* the calls of insert_docstring_and_attribute made so far
    nodes_location_order,     \* write_blueprint_attributes: its locals
    nodes_topological_order,
    prepends,
    extra_nodes,
    modified_files,
    wi,         \* write_blueprint_attributes: position of the running loop
    import_todo,  \* the files of `for file in modified_files` still to come
    files0,     \* the file system when write_blueprint_attributes was called
    stub_of,    \* the stub rendered for each node that is not placeable
    ref_items,      \* convert_ref_to_verb: what the source text was written from
    label_to_node,  \* convert_ref_to_verb: label -> name of the node
    ref_source,     \* convert_ref_to_verb: source
    tex_files,      \* read_latex_file: the LaTeX files that exist, path -> text
    seen,           \* read_latex_file: seen
    read_stack,     \* read_latex_file: the active calls of _read()
    read_out,       \* read_latex_file: the text returned
    parse_doc,      \* parse_nodes: the matches of ENV_PATTERN in the source
    convert_informal,    \* parse_nodes: convert_informal
    match_idx_to_node,   \* parse_nodes: match index -> name of its node, or None
    name_to_raw_sources, \* parse_nodes: name -> the matches that went into it
    pi,             \* parse_nodes: position of the running loop
    gen_visited,    \* generate_new_lean_name: visited_names
    gen_base,       \* generate_new_lean_name: base, of the running call
    gen_out,        \* generate_new_lean_name: the name returned
    gen_depth,      \* generate_new_lean_name: how many calls are active
    attr_node,      \* Node.to_lean_attribute: self
    attr_flags,     \* Node.to_lean_attribute: the six flags
    attr_out        \* Node.to_lean_attribute: the text returned

sortVars == <<visited, result, stack, idx>>
spliceVars == <<files, ms, warned_to_additive, runs, target, spliceLog>>
writeVars == <<nodes_location_order, nodes_topological_order, prepends, extra_nodes,
               modified_files, wi, import_todo, files0, stub_of>>
refVars == <<ref_items, label_to_node, ref_source>>
readVars == <<tex_files, seen, read_stack, read_out>>
parseVars == <<parse_doc, convert_informal, match_idx_to_node, name_to_raw_sources, pi>>
genVars == <<gen_visited, gen_base, gen_out, gen_depth>>
attrVars == <<attr_node, attr_flags, attr_out>>
laterVars == <<parseVars, genVars, attrVars>>
vars == <<pc, nodes, sortVars, spliceVars, writeVars, refVars, readVars, laterVars>>

\* what the operations of one part leave alone
sortFrame == <<spliceVars, writeVars, refVars, readVars, laterVars>>
spliceFrame == <<nodes, sortVars, writeVars, refVars, readVars, laterVars>>
writeFrame == <<sortVars, refVars, readVars, laterVars>>
refFrame == <<nodes, sortVars, spliceVars, writeVars, readVars, laterVars>>
readFrame == <<nodes, sortVars, spliceVars, writeVars, refVars, laterVars>>
parseFrame == <<sortVars, spliceVars, writeVars, readVars, genVars, attrVars,
                ref_items, ref_source>>
genFrame == <<nodes, sortVars, spliceVars, writeVars, refVars, readVars, parseVars,
              attrVars>>
attrFrame == <<nodes, sortVars, spliceVars, writeVars, refVars, readVars, parseVars,
               genVars>>

\* Optional[T]: None is the empty tuple, a value v is <<v>>
NoneVal == <<>>
Some(v) == <<v>>

(***************************************************************************)
(* Bounds                                                                  *)
(***************************************************************************)
\* most dependency edges of a node graph drawn for topological_sort
MaxEdges == 3

\* the node names of a drawn graph, in list order, and a name outside the list
Names == <<"a", "b", "c">>
NameSet == {Names[i] : i \in 1..Len(Names)}
External == "ext"

(***************************************************************************)
(* Generic helpers                                                         *)
(***************************************************************************)
Range(s) == {s[i] : i \in 1..Len(s)}

\* the positions of x in s
Positions(s, x) == {i \in 1..Len(s) : s[i] = x}

(***************************************************************************)
(* Text: Python str operations and the regular expressions of the splicer  *)
(***************************************************************************)
Drop(s, n) == SubSeq(s, n + 1, Len(s))
Take(s, n) == SubSeq(s, 1, n)

StartsWith(s, p) == Len(p) <= Len(s) /\ Take(s, Len(p)) = p

\* p occurs in s at position i
OccursAt(s, p, i) == i >= 1 /\ i + Len(p) - 1 <= Len(s) /\ SubSeq(s, i, i + Len(p) - 1) = p
\* `p in s`
Occurs(s, p) == \E i \in 1..(Len(s) + 1) : OccursAt(s, p, i)

\* \s of the regular expressions, and the whitespace of str.strip()
IsSpace(c) == c \in {" ", "\n", "\t"}

\* a symbol whose first character is in [a-zA-Z_]
WordSymbols ==
    {"a", "b", "c", "d", "e", "i", "m", "n", "s", "t", "x", "y", "z", "_",
     "open", "theorem", "def", "by", "sorry", "to_additive", "import ", "public ",
     "blueprint", "attribute", "simp"}
StartsWithLetter(c) == c \in WordSymbols

\* the number of leading whitespace symbols of s
RECURSIVE LeadingSpaces(_)
LeadingSpaces(s) ==
    IF s # <<>> /\ IsSpace(s[1]) THEN 1 + LeadingSpaces(Drop(s, 1)) ELSE 0

RECURSIVE TrailingSpaces(_)
TrailingSpaces(s) ==
    IF s # <<>> /\ IsSpace(s[Len(s)]) THEN 1 + TrailingSpaces(Take(s, Len(s) - 1)) ELSE 0

\* str.strip()
Strip(s) ==
    LET a == LeadingSpaces(s) IN
    IF a = Len(s) THEN <<>>
    ELSE SubSeq(s, a + 1, Len(s) - TrailingSpaces(s))

\* the position of the first x in s at or after position i; 0 when there is none
RECURSIVE FirstAt(_, _, _)
FirstAt(s, x, i) ==
    IF i > Len(s) THEN 0
    ELSE IF s[i] = x THEN i
    ELSE FirstAt(s, x, i + 1)

\* "".join(parts)
RECURSIVE Concat(_)
Concat(parts) ==
    IF parts = <<>> THEN <<>> ELSE parts[1] \o Concat(Drop(parts, 1))

\* sep.join(parts)
RECURSIVE Join(_, _)
Join(sep, parts) ==
    IF parts = <<>> THEN <<>>
    ELSE IF Len(parts) = 1 THEN parts[1]
    ELSE parts[1] \o sep \o Join(sep, Drop(parts, 1))

\* text.replace("\n", "\n" + " " * indent)
Spaces(n) == [i \in 1..n |-> " "]
RECURSIVE IndentNewlines(_, _)
IndentNewlines(s, indent) ==
    IF s = <<>> THEN <<>>
    ELSE IF s[1] = "\n" THEN <<"\n">> \o Spaces(indent) \o IndentNewlines(Drop(s, 1), indent)
    ELSE <<s[1]>> \o IndentNewlines(Drop(s, 1), indent)

\* str.splitlines(keepends=True): the lines of s, each with its newline
RECURSIVE SplitLines(_)
SplitLines(s) ==
    IF s = <<>> THEN <<>>
    ELSE LET k == FirstAt(s, "\n", 1) IN
         IF k = 0 THEN <<s>>
         ELSE <<Take(s, k)>> \o SplitLines(Drop(s, k))

\* sum(len(lines[i]) for i in range(n))
RECURSIVE SumLens(_, _)
SumLens(lines, n) ==
    IF n <= 0 THEN 0 ELSE Len(lines[n]) + SumLens(lines, n - 1)

\* json.dumps(s): the text in double quotes
QuoteBare(s) == s
Quote(s) == <<"\"">> \o s \o <<"\"">>

\* the sequences that list the elements of the set S once each: the orders
\* in which Python may iterate over a set
RECURSIVE SeqsOf(_)
SeqsOf(S) ==
    IF S = {} THEN {<<>>}
    ELSE UNION {{<<x>> \o t : t \in SeqsOf(S \ {x})} : x \in S}

(***************************************************************************)
(* common.py: NodePart, Node                                               *)
(***************************************************************************)
NodePart(text, uses, uses_raw, latex_env) ==
    [text |-> text, uses |-> uses, uses_raw |-> uses_raw, latex_env |-> latex_env]

\* Node and NodeWithPos
MkNode(name, title, statement, proof, not_ready, discussion, location, file) ==
    [name |-> name, title |-> title, statement |-> statement, proof |-> proof,
     not_ready |-> not_ready, discussion |-> discussion,
     has_lean |-> (location # NoneVal), location |-> location, file |-> file]

\* Position, DeclarationRange, DeclarationLocation.  A module name is the
\* tuple of its dot-separated components.
Position(line, column) == [line |-> line, column |-> column]
DeclarationLocation(module, pos, end_pos) ==
    [module |-> module, range |-> [pos |-> pos, end_pos |-> end_pos]]

\* Node.uses: statement.uses | proof.uses (when there is a proof)
NodeUses(node) ==
    node.statement.uses \cup
        (IF node.proof # NoneVal THEN node.proof[1].uses ELSE {})

\* make_docstring(text, indent)
MakeDocstring(text, indent) ==
    LET t == IndentNewlines(Strip(text), indent) IN
    IF "\n" \in Range(t)
    THEN <<"/--", "\n">> \o Spaces(indent) \o t \o <<"\n">> \o Spaces(indent) \o <<"-/">>
    ELSE <<"/--", " ">> \o t \o <<" ", "-/">>

\* The six inclusion flags of to_lean_attribute (all True by default)
AttributeFlags(st, u, ur, pt, pu, pur) ==
    [add_statement_text |-> st, add_uses |-> u, add_uses_raw |-> ur,
     add_proof_text |-> pt, add_proof_uses |-> pu, add_proof_uses_raw |-> pur]
DefaultFlags == AttributeFlags(TRUE, TRUE, TRUE, TRUE, TRUE, TRUE)

\* The orders in which the four sets of a node are iterated
SetOrders(node) ==
    [uses : SeqsOf(node.statement.uses),
     uses_raw : SeqsOf(node.statement.uses_raw),
     proof_uses : IF node.proof = NoneVal THEN {<<>>} ELSE SeqsOf(node.proof[1].uses),
     proof_uses_raw : IF node.proof = NoneVal THEN {<<>>} ELSE SeqsOf(node.proof[1].uses_raw)]

\* "(key[items])": one configuration entry holding a list
ListConfig(key, items) ==
    <<"(", key, "[">> \o Join(<<",", " ">>, items) \o <<"]", ")">>

\* Node.to_lean_attribute: the configuration entries, in order (lines 62-84)
AttributeConfigs(node, flags, ord) ==
    (IF node.title # NoneVal /\ node.title[1] # <<>>
        THEN <<Quote(node.title[1])>> ELSE <<>>)
    \o (IF flags.add_statement_text /\ Strip(node.statement.text) # <<>>
        THEN <<(<<"(", "statement := ">> \o MakeDocstring(node.statement.text, 2) \o <<")">>)>>
        ELSE <<>>)
    \o (IF flags.add_uses /\ node.statement.uses # {}
        THEN <<ListConfig("uses := ", [i \in 1..Len(ord.uses) |-> <<ord.uses[i]>>])>>
        ELSE <<>>)
    \o (IF flags.add_uses_raw /\ node.statement.uses_raw # {}
        THEN <<ListConfig("uses := ",
                 [i \in 1..Len(ord.uses_raw) |-> Quote(<<ord.uses_raw[i]>>)])>>
        ELSE <<>>)
    \o (IF node.proof # NoneVal
        THEN (IF flags.add_proof_text /\ Strip(node.proof[1].text) # <<>>
                 THEN <<(<<"(", "proof := ">> \o MakeDocstring(node.proof[1].text, 2) \o <<")">>)>>
                 ELSE <<>>)
             \o (IF flags.add_proof_uses /\ node.proof[1].uses # {}
                 THEN <<ListConfig("proofUses := ",
                          [i \in 1..Len(ord.proof_uses) |-> <<ord.proof_uses[i]>>])>>
                 ELSE <<>>)
             \o (IF flags.add_proof_uses_raw /\ node.proof[1].uses_raw # {}
                 THEN <<ListConfig("proofUses := ",
                          [i \in 1..Len(ord.proof_uses_raw) |->
                              Quote(<<ord.proof_uses_raw[i]>>)])>>
                 ELSE <<>>)
        ELSE <<>>)
    \o (IF node.not_ready THEN << <<"(", "notReady := true", ")">> >> ELSE <<>>)
    \o (IF node.discussion # NoneVal /\ node.discussion[1] # 0
        THEN << <<"(", "discussion := ", ToString(node.discussion[1]), ")">> >>
        ELSE <<>>)
    \o (IF \/ node.proof = NoneVal /\ node.statement.latex_env # "definition"
           \/ node.proof # NoneVal /\ node.statement.latex_env # "theorem"
        THEN << (<<"(", "latexEnv := ">> \o Quote(<<node.statement.latex_env>>) \o <<")">>) >>
        ELSE <<>>)

\* Node.to_lean_attribute (lines 85-86)
ToLeanAttribute(node, flags, ord) ==
    LET configs == AttributeConfigs(node, flags, ord) IN
    <<"blueprint">> \o Concat([i \in 1..Len(configs) |-> <<"\n", " ", " ">> \o configs[i]])

(***************************************************************************)
(* modify_lean.py: split_declaration                                       *)
(***************************************************************************)
\* the offset of a Position: the lengths of the lines before its line (Lean
\* lines are 1-indexed), plus its column  (lines 14-18)
PosOffset(source, p) == SumLens(SplitLines(source), p.line - 1) + p.column

\* source[a:b] of Python, for 0 <= a and 0 <= b
Slice(source, a, b) ==
    LET lo == IF a > Len(source) THEN Len(source) ELSE a
        hi == IF b > Len(source) THEN Len(source) ELSE b
    IN  IF hi <= lo THEN <<>> ELSE SubSeq(source, lo + 1, hi)

\* post = source[end:]  (line 22)
PostSliceSkipsOne(source, end) == Slice(source, end + 1, Len(source))
PostSlice(source, end) == Slice(source, end, Len(source))

\* split_declaration(source, pos, end_pos)  (lines 12-24)
SplitDeclaration(source, pos, end_pos) ==
    LET start == PosOffset(source, pos)
        end   == PosOffset(source, end_pos)
    IN  [pre  |-> Slice(source, 0, start),
         decl |-> Slice(source, start, end),
         post |-> PostSlice(source, end)]

(***************************************************************************)
(* modify_lean.py: insert_docstring_and_attribute                          *)
(***************************************************************************)
\* One `... in` line at the start of s, for [a-zA-Z_]+.*?in\n : its length
\* (newline included), or 0.  `.` matches no newline, so the line is the text
\* up to the first newline; it starts with a letter and ends with "in", with
\* at least one symbol before the "in".
ModifierLineLen(s) ==
    LET k == FirstAt(s, "\n", 1) IN
    IF /\ k >= 4
       /\ StartsWithLetter(s[1])
       /\ s[k - 2] = "i"
       /\ s[k - 1] = "n"
    THEN k ELSE 0

\* re.search(r"^(?:[a-zA-Z_]+.*?in\n)+", decl): the length matched, 0 for no
\* match  (line 37)
RECURSIVE MatchModifiers(_)
MatchModifiers(s) ==
    LET n == ModifierLineLen(s) IN
    IF n = 0 THEN 0 ELSE n + MatchModifiers(Drop(s, n))

NoMatch == [matched |-> FALSE, len |-> 0, group |-> <<>>]

\* re.search(r"^\s*" + open + r"(.*?)" + close + r"\s*", s, flags=re.DOTALL)
\* for one-symbol open and close: leading whitespace, open, the shortest
\* text up to a close, then all the whitespace that follows
MatchBracketed(s, open, close) ==
    LET a == LeadingSpaces(s) IN
    IF a < Len(s) /\ s[a + 1] = open
    THEN LET c == FirstAt(s, close, a + 2) IN
         IF c = 0 THEN NoMatch
         ELSE [matched |-> TRUE,
               len     |-> c + LeadingSpaces(Drop(s, c)),
               group   |-> SubSeq(s, a + 2, c - 1)]
    ELSE NoMatch

\* re.search(r"^\s*/--(.*?)-/\s*", decl, flags=re.DOTALL)  (line 44)
MatchDocstring(s) == MatchBracketed(s, "/--", "-/")

\* re.search(r"^\s*@\[(.*?)\]\s*", decl, flags=re.DOTALL)  (line 51)
MatchAttributes(s) == MatchBracketed(s, "@[", "]")

\* attrs = match.group(1) + ", " + new_attr  (line 53)
MergeAttrsNewFirst(old, new_attr) == new_attr \o <<",", " ">> \o old
MergeAttrs(old, new_attr) == old \o <<",", " ">> \o new_attr

\* f"{command_modifiers}{docstring}\n@[{attrs}]\n{decl}"  (line 77)
RenderDeclarationNoModifiers(command_modifiers, docstring, attrs, decl) ==
    docstring \o <<"\n", "@[">> \o attrs \o <<"]", "\n">> \o decl
RenderDeclaration(command_modifiers, docstring, attrs, decl) ==
    command_modifiers \o docstring \o <<"\n", "@[">> \o attrs \o <<"]", "\n">> \o decl

\* the steps of insert_docstring_and_attribute on decl  (lines 37-56)
InsertParts(decl, new_docstring, new_attr) ==
    LET m1    == MatchModifiers(decl)
        mods  == Take(decl, m1)
        d1    == Drop(decl, m1)
        m2    == MatchDocstring(d1)
        doc   == IF m2.matched
                 THEN new_docstring \o <<"\n", "\n">> \o Strip(m2.group)
                 ELSE new_docstring
        d2    == Drop(d1, m2.len)
        m3    == MatchAttributes(d2)
        attrs == IF m3.matched THEN MergeAttrs(m3.group, new_attr) ELSE new_attr
        d3    == Drop(d2, m3.len)
    IN  [command_modifiers |-> mods,
         had_docstring     |-> m2.matched,
         had_attributes    |-> m3.matched,
         docstring         |-> IF Strip(doc) # <<>> THEN MakeDocstring(doc, 0) ELSE doc,
         attrs             |-> attrs,
         decl              |-> d3]

\* decl.startswith("to_additive")  (line 61)
IsToAdditive(parts) == StartsWith(parts.decl, <<"to_additive">>)

\* insert_docstring_and_attribute(decl, new_docstring, new_attr)  (lines 29-77)
InsertDocstringAndAttribute(decl, new_docstring, new_attr) ==
    LET p == InsertParts(decl, new_docstring, new_attr) IN
    IF IsToAdditive(p)
    THEN LET rest == Strip(Drop(p.decl, 1))
             d    == IF rest # <<>> THEN rest \o <<" ">> ELSE rest
         IN  <<"to_additive", " ", "(", "attr := ">> \o p.attrs \o <<")", " ">>
                 \o d \o p.docstring
    ELSE RenderDeclaration(p.command_modifiers, p.docstring, p.attrs, p.decl)

(***************************************************************************)
(* modify_lean.py: write_blueprint_attributes, its locals                  *)
(***************************************************************************)
WriteIdle ==
    /\ nodes_location_order = <<>>
    /\ nodes_topological_order = <<>>
    /\ prepends = <<>>
    /\ extra_nodes = <<>>
    /\ modified_files = {}
    /\ wi = 1
    /\ import_todo = {}
    /\ files0 = <<>>
    /\ stub_of = <<>>

(***************************************************************************)
(* parse_latex.py: the arguments and locals of convert_ref_to_verb and of  *)
(* read_latex_file, when they are not running                              *)
(***************************************************************************)
RefIdle ==
    /\ ref_items = <<>>
    /\ label_to_node = <<>>
    /\ ref_source = <<>>

ReadIdle ==
    /\ tex_files = <<>>
    /\ seen = {}
    /\ read_stack = <<>>
    /\ read_out = <<>>

ParseIdle ==
    /\ parse_doc = <<>>
    /\ convert_informal = FALSE
    /\ match_idx_to_node = <<>>
    /\ name_to_raw_sources = <<>>
    /\ pi = 1

GenIdle ==
    /\ gen_visited = {}
    /\ gen_base = <<>>
    /\ gen_out = <<>>
    /\ gen_depth = 0

AttrIdle ==
    /\ attr_node = <<>>
    /\ attr_flags = <<>>
    /\ attr_out = <<>>

(***************************************************************************)
(* modify_lean.py: modify_source                                           *)
(***************************************************************************)
\* most splices of one declaration (one per run of the converter)
MaxRuns == 2

DummyNode ==
    MkNode("", NoneVal, NodePart(<<>>, {}, {}, "theorem"), NoneVal, FALSE, NoneVal,
           NoneVal, NoneVal)

\* the arguments of a call of modify_source, and its locals, not yet set
Call(node, file, location, add_uses, prepend) ==
    [stage |-> "call", node |-> node, file |-> file, location |-> location,
     add_uses |-> add_uses, prepend |-> prepend,
     source |-> <<>>, pre |-> <<>>, decl |-> <<>>, post |-> <<>>,
     attr |-> <<>>, inserted |-> <<>>, newdecl |-> <<>>]

IdleCall ==
    [Call(DummyNode, "", DeclarationLocation(<<>>, Position(1, 0), Position(1, 0)),
          FALSE, NoneVal) EXCEPT !.stage = "idle"]

SpliceIdle ==
    /\ files = <<>>
    /\ ms = IdleCall
    /\ warned_to_additive = FALSE
    /\ runs = 0
    /\ target = [pre |-> <<>>, decl |-> <<>>, post |-> <<>>]
    /\ spliceLog = <<>>

\* "".join(p + "\n\n" for p in prepend)  (line 94)
PrependText(prepend) ==
    IF prepend = NoneVal THEN <<>>
    ELSE Concat([i \in 1..Len(prepend[1]) |-> prepend[1][i] \o <<"\n", "\n">>])

\* source = file.read_text(); pre, decl, post = split_declaration(...)
\* (lines 82-83)
MsSplit ==
    /\ ms.stage = "call"
    /\ ms.file \in DOMAIN files
    /\ LET source == files[ms.file]
           parts  == SplitDeclaration(source, ms.location.range.pos,
                                      ms.location.range.end_pos)
       IN  ms' = [ms EXCEPT !.stage = "split", !.source = source,
                            !.pre = parts.pre, !.decl = parts.decl,
                            !.post = parts.post]
    /\ UNCHANGED <<pc, files, warned_to_additive, runs, target, spliceLog>>

\* the flags of lines 85-88, the attribute of lines 89-91, the new declaration
\* of lines 92-94
MsInsert ==
    /\ ms.stage = "split"
    /\ LET node      == ms.node
           has_sorry == Occurs(ms.decl, <<"sorry">>)
           add_uses  == ms.add_uses \/ (node.proof = NoneVal /\ has_sorry)
           add_uses_raw == add_uses \/ node.statement.uses_raw # {}
           add_proof_uses == add_uses \/ (node.proof # NoneVal /\ has_sorry)
           add_proof_uses_raw ==
               add_uses \/ (node.proof # NoneVal /\ node.proof[1].uses_raw # {})
           flags == AttributeFlags(FALSE, add_uses, add_uses_raw, TRUE,
                                   add_proof_uses, add_proof_uses_raw)
       IN  \E ord \in SetOrders(node) :
              LET attr == ToLeanAttribute(node, flags, ord)
                  out  == InsertDocstringAndAttribute(ms.decl, node.statement.text, attr)
              IN  /\ ms' = [ms EXCEPT !.stage = "inserted", !.attr = attr,
                                      !.inserted = out,
                                      !.newdecl = PrependText(ms.prepend) \o out]
                  /\ warned_to_additive' =
                        (warned_to_additive \/
                         IsToAdditive(InsertParts(ms.decl, node.statement.text, attr)))
                  /\ spliceLog' = Append(spliceLog,
                        [decl |-> ms.decl, new_docstring |-> node.statement.text,
                         new_attr |-> attr, out |-> out])
    /\ UNCHANGED <<pc, files, runs, target>>

\* file.write_text(pre + decl + post)  (line 95)
MsWrite ==
    /\ ms.stage = "inserted"
    /\ files' = [files EXCEPT ![ms.file] = ms.pre \o ms.newdecl \o ms.post]
    /\ ms' = [ms EXCEPT !.stage = "written"]
    /\ runs' = runs + 1
    /\ UNCHANGED <<pc, warned_to_additive, target, spliceLog>>

(***************************************************************************)
(* The splicer on one declaration: the declarations, surrounding text and  *)
(* nodes it is run on                                                      *)
(***************************************************************************)
SpliceModifiers == {<<>>, <<"open", " ", "a", " ", "i", "n", "\n">>}
SpliceDocstrings == {<<>>, <<"/--", " ", "x", " ", "-/", "\n">>}
SpliceAttributes == {<<>>, <<"@[", "simp", "]", "\n">>}
SpliceBodies ==
    {<<"theorem", " ", "a", "\n", " ", " ", "b">>,
     <<"theorem", " ", "a", "\n", " ", " ", "sorry">>,
     <<"def", " ", "m", "a", "i", "n", "\n", " ", " ", "b">>}
\* the declaration range of a declaration generated by @[to_additive] is the
\* to_additive entry of the attribute list
SpliceAdditive == {<<"to_additive">>, <<"to_additive", " ", "a">>}
SpliceDecls ==
    {m \o d \o a \o b : m \in SpliceModifiers, d \in SpliceDocstrings,
                        a \in SpliceAttributes, b \in SpliceBodies}
        \cup SpliceAdditive

\* the text before and after the declaration in its file
SpliceContexts ==
    {[pre |-> <<>>, post |-> <<>>],
     [pre |-> <<"import ", "A", "\n", "\n", "x", " ">>,
      post |-> <<" ", "y", "\n", "\n", "theorem", " ", "z", "\n">>]}

SpliceNodes ==
    {MkNode("a", NoneVal, NodePart(<<"d">>, {}, {}, "theorem"),
            Some(NodePart(<<>>, {}, {}, "proof")), FALSE, NoneVal, NoneVal, NoneVal),
     MkNode("a", NoneVal, NodePart(<<>>, {"b"}, {}, "theorem"),
            Some(NodePart(<<>>, {}, {}, "proof")), TRUE, NoneVal, NoneVal, NoneVal),
     MkNode("a", Some(<<"t">>), NodePart(<<"d", "\n", "e">>, {}, {}, "definition"),
            NoneVal, FALSE, NoneVal, NoneVal, NoneVal),
     MkNode("a", NoneVal, NodePart(<<>>, {}, {"l"}, "theorem"),
            Some(NodePart(<<>>, {"b", "c"}, {}, "proof")), FALSE, NoneVal, NoneVal,
            NoneVal)}

SplicePrepends ==
    {NoneVal, Some(<< <<"attribute", " ", "[", "blueprint", "]", " ", "u">> >>)}

\* the Position of an offset of source, as Lean reports it: 1-indexed line,
\* 0-indexed column
OffsetToPos(source, off) ==
    LET nl == {i \in 1..off : source[i] = "\n"}
        last == IF nl = {} THEN 0 ELSE CHOOSE i \in nl : \A j \in nl : j <= i
    IN  Position(1 + Cardinality(nl), off - last)

\* the location of the text of length n at offset off of source
LocationAt(module, source, off, n) ==
    DeclarationLocation(module, OffsetToPos(source, off), OffsetToPos(source, off + n))

\* a file in which any range may be spliced
RangeFile == <<"a", "\n", "@[", "b", "]", "\n", "\n", "c">>

InitSplice ==
    /\ pc = "splice"
    /\ nodes = <<>>
    /\ visited = {}
    /\ result = <<>>
    /\ stack = <<>>
    /\ idx = 1
    /\ warned_to_additive = FALSE
    /\ runs = 0
    /\ spliceLog = <<>>
    /\ WriteIdle
    /\ RefIdle
    /\ ReadIdle
    /\ ParseIdle
    /\ GenIdle
    /\ AttrIdle
    /\ \/ \E d \in SpliceDecls, c \in SpliceContexts, n \in SpliceNodes,
            au \in BOOLEAN, pp \in SplicePrepends :
            LET source == c.pre \o d \o c.post IN
            /\ files = [f \in {"F.lean"} |-> source]
            /\ target = [pre |-> c.pre, decl |-> d, post |-> c.post]
            /\ ms = Call(n, "F.lean", LocationAt(<<"M">>, source, Len(c.pre), Len(d)), au, pp)
       \/ \E a \in 0..Len(RangeFile) : \E b \in a..Len(RangeFile) :
          \E n \in SpliceNodes :
            /\ files = [f \in {"F.lean"} |-> RangeFile]
            /\ target = [pre |-> Take(RangeFile, a),
                         decl |-> SubSeq(RangeFile, a + 1, b),
                         post |-> Drop(RangeFile, b)]
            /\ ms = Call(n, "F.lean", LocationAt(<<"M">>, RangeFile, a, b - a), FALSE, NoneVal)

\* The converter is run again on its own output: the declaration that the
\* last run wrote is spliced for another node.
SpliceRerun ==
    /\ pc = "splice"
    /\ ms.stage = "written"
    /\ runs < MaxRuns
    /\ \E n \in SpliceNodes :
          LET before == ms.pre \o PrependText(ms.prepend) IN
          /\ target' = [pre |-> before, decl |-> ms.inserted, post |-> ms.post]
          /\ ms' = Call(n, ms.file,
                        LocationAt(ms.location.module, files[ms.file], Len(before),
                                   Len(ms.inserted)),
                        ms.add_uses, NoneVal)
    /\ UNCHANGED <<pc, files, warned_to_additive, runs, spliceLog>>

NextSplice ==
    \/ (MsSplit /\ UNCHANGED spliceFrame)
    \/ (MsInsert /\ UNCHANGED spliceFrame)
    \/ (MsWrite /\ UNCHANGED spliceFrame)
    \/ (SpliceRerun /\ UNCHANGED spliceFrame)

SpecSplice == InitSplice /\ [][NextSplice]_vars

(***************************************************************************)
(* Properties of the splicer                                               *)
(***************************************************************************)
\* C3: the three parts of split_declaration are the text before the range,
\* the text of the range and the text after it, so they concatenate to the
\* file text; the file that modify_source writes is the text before the range,
\* the new declaration and the text after the range, both unchanged.
C3_SurroundingsPreserved ==
    /\ ms.stage \in {"split", "inserted", "written"} =>
          /\ ms.pre \o ms.decl \o ms.post = ms.source
          /\ ms.pre = target.pre
          /\ ms.decl = target.decl
          /\ ms.post = target.post
    /\ ms.stage = "written" =>
          LET written == files[ms.file] IN
          /\ written = target.pre \o ms.newdecl \o target.post
          /\ Take(written, Len(target.pre)) = target.pre
          /\ Drop(written, Len(written) - Len(target.post)) = target.post

\* a written splice of a declaration that starts inside a line, after the
\* first line, with text on both sides
C3_Witness ==
    /\ ms.stage = "written"
    /\ ms.location.range.pos.line > 1
    /\ ms.location.range.pos.column > 0
    /\ target.post # <<>>
    /\ ms.newdecl # target.decl
    /\ files[ms.file] # ms.source

\* the declaration has no docstring and no attribute list
NoDocNoAttr(decl) == "/--" \notin Range(decl) /\ "@[" \notin Range(decl)

\* a whole line that starts with a letter and ends with "in"
IsInLine(line) ==
    /\ Len(line) >= 4
    /\ line[Len(line)] = "\n"
    /\ line[Len(line) - 1] = "n"
    /\ line[Len(line) - 2] = "i"
    /\ StartsWithLetter(line[1])

\* the length of the leading lines of decl that are all `... in` lines
LeadingInLines(decl) ==
    LET lines == SplitLines(decl)
        n == CHOOSE k \in 0..Len(lines) :
                /\ \A j \in 1..k : IsInLine(lines[j])
                /\ k < Len(lines) => ~IsInLine(lines[k + 1])
    IN  SumLens(lines, n)

\* the block that a call inserts: the rendered new docstring (nothing for a
\* blank one), a newline, the bracketed new attribute, a newline
InsertedBlock(e) ==
    (IF Strip(e.new_docstring) = <<>> THEN <<>> ELSE MakeDocstring(e.new_docstring, 0))
        \o <<"\n", "@[">> \o e.new_attr \o <<"]", "\n">>

\* C4 as stated: for a declaration with no docstring, no attribute list and
\* no to_additive marker at its start, the result is the inserted block and
\* then the declaration.
C4_BlockThenDeclaration ==
    \A i \in 1..Len(spliceLog) :
        LET e == spliceLog[i] IN
        (NoDocNoAttr(e.decl) /\ ~StartsWith(e.decl, <<"to_additive">>)) =>
            e.out = InsertedBlock(e) \o e.decl

\* C4, amended: for such a declaration the result is the declaration's leading
\* `... in` modifier lines (if any), then the inserted block, then the rest of
\* the declaration; taking the block out gives back the declaration.
C4_BlockAfterModifiers ==
    \A i \in 1..Len(spliceLog) :
        LET e == spliceLog[i]
            k == LeadingInLines(e.decl)
        IN  (NoDocNoAttr(e.decl) /\ ~StartsWith(e.decl, <<"to_additive">>)) =>
                /\ e.out = Take(e.decl, k) \o InsertedBlock(e) \o Drop(e.decl, k)
                /\ Take(e.out, k) \o Drop(e.out, k + Len(InsertedBlock(e))) = e.decl

\* a call with a blank new docstring on a declaration with a modifier line
\* and an indented body
C4_Witness ==
    \E i \in 1..Len(spliceLog) :
        LET e == spliceLog[i] IN
        /\ NoDocNoAttr(e.decl)
        /\ StartsWith(e.decl, <<"open">>)
        /\ e.new_docstring = <<>>
        /\ Occurs(e.decl, <<"\n", " ", " ", "b">>)
        /\ Occurs(e.out, <<"\n", " ", " ", "b">>)

\* the pairs of calls of which the second is made on the output of the first,
\* with a different attribute
SecondRuns ==
    {i \in 2..Len(spliceLog) :
        /\ spliceLog[i].decl = spliceLog[i - 1].out
        /\ spliceLog[i].new_attr # spliceLog[i - 1].new_attr}

UpToFirstClose(attr) ==
    IF "]" \in Range(attr) THEN Take(attr, FirstAt(attr, "]", 1) - 1) ELSE attr

RECURSIVE ListClose(_, _, _)
ListClose(s, k, depth) ==
    IF k > Len(s) THEN 0
    ELSE IF s[k] \in {"[", "@["} THEN ListClose(s, k + 1, depth + 1)
    ELSE IF s[k] # "]" THEN ListClose(s, k + 1, depth)
    ELSE IF depth = 0 THEN k ELSE ListClose(s, k + 1, depth - 1)

\* C12 as stated: when the declaration (after its modifiers and docstring)
\* starts with an attribute list, the contents captured are everything up to
\* the bracket that closes that list, also over a bracketed list inside an
\* entry; the new declaration holds the list of those contents, a comma and the
\* new attribute, followed by the text after the closing bracket.
C12_WholeListCaptured ==
    \A i \in 1..Len(spliceLog) :
        LET e  == spliceLog[i]
            d1 == Drop(e.decl, MatchModifiers(e.decl))
            d2 == Drop(d1, MatchDocstring(d1).len)
            a  == LeadingSpaces(d2)
            c  == ListClose(d2, a + 2, 0)
        IN  (a < Len(d2) /\ d2[a + 1] = "@[" /\ c # 0) =>
               Occurs(e.out,
                      <<"@[">> \o SubSeq(d2, a + 2, c - 1) \o <<",", " ">> \o e.new_attr
                         \o <<"]", "\n">> \o Drop(d2, c + LeadingSpaces(Drop(d2, c))))

(***************************************************************************)
(* modify_lean.py: topological_sort                                        *)
(***************************************************************************)
\* name_to_node = {node.name: (node, value) for node, value in data}:
\* a later entry of the same name replaces an earlier one
NameToNodeKeys(data) == {data[i].name : i \in 1..Len(data)}
NameToNode(data, name) ==
    data[CHOOSE i \in 1..Len(data) :
            /\ data[i].name = name
            /\ \A j \in 1..Len(data) : data[j].name = name => j <= i]

\* `if used in name_to_node` (line 125)
UsedIsKnownAlways(data, used) == TRUE
UsedIsKnown(data, used) == used \in NameToNodeKeys(data)

\* result.append((node, value)) after the loop over node.uses (line 127)
EmitFirst(res, name) == <<name>> \o res
Emit(res, name) == Append(res, name)

\* visit(name): lines 119-123, up to the loop over node.uses, called with the
\* active calls stk.  A name that is not a key of name_to_node raises KeyError
\* at line 123.
Visit(name, stk) ==
    IF name \in visited
    THEN /\ stack' = stk
         /\ UNCHANGED <<visited, pc>>
    ELSE /\ visited' = visited \cup {name}
         /\ IF name \in NameToNodeKeys(nodes)
            THEN /\ stack' = Append(stk,
                        [name |-> name,
                         todo |-> NodeUses(NameToNode(nodes, name))])
                 /\ UNCHANGED pc
            ELSE /\ pc' = "KeyError"
                 /\ stack' = stk

\* for node, _ in data: visit(node.name)   (lines 129-130)
SortVisitTop ==
    /\ pc = "sort"
    /\ stack = <<>>
    /\ idx <= Len(nodes)
    /\ idx' = idx + 1
    /\ Visit(nodes[idx].name, stack)
    /\ UNCHANGED <<nodes, result, sortFrame>>

\* for used in node.uses: if used in name_to_node: visit(used)  (lines 124-126)
\* node.uses is a set: its iteration order is any order
SortIter ==
    /\ pc = "sort"
    /\ stack # <<>>
    /\ LET top == stack[Len(stack)] IN
       \E used \in top.todo :
          LET rest == [stack EXCEPT ![Len(stack)].todo = top.todo \ {used}] IN
          IF UsedIsKnown(nodes, used)
          THEN Visit(used, rest)
          ELSE /\ stack' = rest
               /\ UNCHANGED <<visited, pc>>
    /\ UNCHANGED <<nodes, result, idx, sortFrame>>

\* result.append((node, value)) and return  (line 127)
SortReturn ==
    /\ pc = "sort"
    /\ stack # <<>>
    /\ stack[Len(stack)].todo = {}
    /\ result' = Emit(result, stack[Len(stack)].name)
    /\ stack' = SubSeq(stack, 1, Len(stack) - 1)
    /\ UNCHANGED <<pc, nodes, visited, idx, sortFrame>>

\* return result  (line 132)
SortDone ==
    /\ pc = "sort"
    /\ stack = <<>>
    /\ idx > Len(nodes)
    /\ pc' = "sorted"
    /\ UNCHANGED <<nodes, sortVars, sortFrame>>

\* The graphs drawn for topological_sort: every node of Names, with at most
\* MaxEdges edges in all, each a statement use or a proof use, to a node of
\* the list or to a name outside it.
EdgeUniverse == NameSet \X (NameSet \cup {External})
EdgeSets == {E \in SUBSET EdgeUniverse : Cardinality(E) <= MaxEdges}

SortNode(name, E, PE) ==
    MkNode(name, NoneVal,
           NodePart(<<>>, {e[2] : e \in {d \in E \ PE : d[1] = name}}, {}, "theorem"),
           IF \E d \in PE : d[1] = name
           THEN Some(NodePart(<<>>, {e[2] : e \in {d \in PE : d[1] = name}}, {}, "proof"))
           ELSE NoneVal,
           FALSE, NoneVal, NoneVal, NoneVal)

InitSort ==
    /\ pc = "sort"
    /\ \E E \in EdgeSets : \E PE \in SUBSET E :
          nodes = [i \in 1..Len(Names) |-> SortNode(Names[i], E, PE)]
    /\ visited = {}
    /\ result = <<>>
    /\ stack = <<>>
    /\ idx = 1
    /\ SpliceIdle
    /\ WriteIdle
    /\ RefIdle
    /\ ReadIdle
    /\ ParseIdle
    /\ GenIdle
    /\ AttrIdle

NextSort == SortVisitTop \/ SortIter \/ SortReturn \/ SortDone

\* topological_sort is sequential code: it keeps running until it returns
SpecSort == InitSort /\ [][NextSort]_vars /\ WF_vars(NextSort)

(***************************************************************************)
(* Properties of topological_sort                                          *)
(***************************************************************************)
\* the resolved dependencies of a node that are nodes of the list
ResolvedDeps(name) == NodeUses(NameToNode(nodes, name)) \cap NameToNodeKeys(nodes)

RECURSIVE ReachFrom(_, _)
ReachFrom(S, k) ==
    IF k = 0 THEN S
    ELSE ReachFrom(S \cup UNION {ResolvedDeps(n) : n \in S}, k - 1)

\* the nodes reachable from name by one or more resolved edges
Descendants(name) == ReachFrom(ResolvedDeps(name), Len(nodes))
Cyclic == \E n \in NameToNodeKeys(nodes) : n \in Descendants(n)

EachExactlyOnce ==
    /\ Len(result) = Len(nodes)
    /\ \A i \in 1..Len(nodes) : Cardinality(Positions(result, nodes[i].name)) = 1

\* C1: on an acyclic graph of uniquely named nodes the returned order has
\* every node strictly after each of its resolved dependencies that is in the
\* list; dependencies that name no node of the list play no part.
C1_DepsBeforeDependents ==
    (pc = "sorted" /\ ~Cyclic) =>
        /\ EachExactlyOnce
        /\ \A i \in 1..Len(result) : \A d \in ResolvedDeps(result[i]) :
              \E j \in 1..(i - 1) : result[j] = d

\* a sorted acyclic graph in which the first node of the list depends on a
\* later one and on a name outside the list
C1_Witness ==
    /\ pc = "sorted"
    /\ ~Cyclic
    /\ Names[2] \in NodeUses(nodes[1])
    /\ External \in NodeUses(nodes[1])
    /\ result[1] # nodes[1].name

\* C2: on a graph with a cycle (a self-dependency included) the sort
\* terminates, and its output holds every input node exactly once.
C2_CyclicTerminatesComplete ==
    Cyclic => <>(pc = "sorted" /\ EachExactlyOnce)

\* a finished sort of a graph with a self-dependency and a longer cycle
C2_Witness ==
    /\ pc = "sorted"
    /\ Cyclic
    /\ \E n \in NameSet : n \in ResolvedDeps(n)
    /\ \E n \in NameSet : n \notin ResolvedDeps(n) /\ n \in Descendants(n)
    /\ EachExactlyOnce

(***************************************************************************)
(* modify_lean.py: add_blueprint_gen_import                                *)
(***************************************************************************)
\* line.startswith("import ") or line.startswith("public import ")
IsImportLine(line) ==
    StartsWith(line, <<"import ">>) \/ StartsWith(line, <<"public ", "import ">>)

\* first_import_index: the 0-based index of the first import line, 0 when
\* there is none  (lines 102-106)
FirstImportIndexAfter(lines) ==
    LET hits == {i \in 1..Len(lines) : IsImportLine(lines[i])} IN
    IF hits = {} THEN 0 ELSE CHOOSE i \in hits : \A j \in hits : i <= j
FirstImportIndex(lines) ==
    LET hits == {i \in 1..Len(lines) : IsImportLine(lines[i])} IN
    IF hits = {} THEN 0 ELSE (CHOOSE i \in hits : \A j \in hits : i <= j) - 1

ImportArchitect == <<"import ", "Architect">>

\* the text that add_blueprint_gen_import writes for source  (lines 101-108)
AddBlueprintGenImport(source) ==
    LET lines == SplitLines(source)
        k == FirstImportIndex(lines)
    IN  Concat(Take(lines, k) \o <<ImportArchitect \o <<"\n">> >> \o Drop(lines, k))

(***************************************************************************)
(* modify_lean.py: write_blueprint_attributes                              *)
(***************************************************************************)
\* the arguments other than nodes: --modules, --root_file (its default),
\* --add_uses
WriteModules == {"M"}
RootFile == "extra_nodes.lean"
WriteAddUses == FALSE

\* the order of the module name components as Python compares strings
StringRank == [s \in {"A", "B", "M", "Up"} |->
                 CASE s = "A" -> 1 [] s = "B" -> 2 [] s = "M" -> 3 [] s = "Up" -> 4]

\* m1 < m2, for module names
RECURSIVE ModuleLess(_, _)
ModuleLess(m1, m2) ==
    IF m1 = <<>> THEN m2 # <<>>
    ELSE IF m2 = <<>> THEN FALSE
    ELSE IF m1[1] # m2[1] THEN StringRank[m1[1]] < StringRank[m2[1]]
    ELSE ModuleLess(Tail(m1), Tail(m2))

\* the sort key of line 140
LocationKey(n) ==
    IF n.location # NoneVal
    THEN <<n.location[1].module, n.location[1].range.pos.line>>
    ELSE << <<>>, 0 >>

KeyLess(k1, k2) == ModuleLess(k1[1], k2[1]) \/ (k1[1] = k2[1] /\ k1[2] < k2[2])

\* sorted(nodes, key=..., reverse=True): descending, and stable (nodes of
\* equal key keep their order)  (lines 137-142)
RECURSIVE SortedReverse(_)
SortedReverse(seq) ==
    IF seq = <<>> THEN <<>>
    ELSE LET before == SortedReverse(Take(seq, Len(seq) - 1))
             x == seq[Len(seq)]
             k == Cardinality({i \in 1..Len(before) :
                                ~KeyLess(LocationKey(before[i]), LocationKey(x))})
         IN  Take(before, k) \o <<x>> \o Drop(before, k)

\* is_upstream_or_informal(node)  (lines 156-157)
IsUpstreamOrInformal(node) ==
    \/ node.location = NoneVal
    \/ ~(\E module \in WriteModules : node.location[1].module[1] = module)

\* NodePart.all_uses()
AllUses(uses_ord, uses_raw_ord) ==
    [i \in 1..Len(uses_ord) |-> <<uses_ord[i]>>]
        \o [i \in 1..Len(uses_raw_ord) |-> Quote(<<uses_raw_ord[i]>>)]

\* upstream_or_informal_to_lean(node)  (lines 158-174)
UpstreamOrInformalToLean(node, ord) ==
    IF node.location # NoneVal
    THEN <<"attribute", " ", "[">> \o ToLeanAttribute(node, DefaultFlags, ord)
            \o <<"]", " ", node.name>>
    ELSE (IF Strip(node.statement.text) # <<>>
          THEN MakeDocstring(node.statement.text, 0) \o <<"\n">> ELSE <<>>)
         \o <<"@[">>
         \o ToLeanAttribute(node, AttributeFlags(FALSE, FALSE, TRUE, FALSE, FALSE, TRUE), ord)
         \o <<"]", "\n">>
         \o (IF node.proof = NoneVal
             THEN <<"def", " ", node.name, " ", ":", " ", "(sorry : Type)", " ", ":=", "\n",
                    " ", " ", "sorry_using", " ", "[">>
                    \o Join(<<",", " ">>, AllUses(ord.uses, ord.uses_raw)) \o <<"]">>
             ELSE <<"theorem", " ", node.name, " ", ":", " ", "(", "sorry_using", " ", "[">>
                    \o Join(<<",", " ">>, AllUses(ord.proof_uses, ord.proof_uses_raw))
                    \o <<"]", " ", ":", " ", "Prop", ")", " ", ":=", " ", "by", "\n">>
                    \o (IF Strip(node.proof[1].text) # <<>>
                        THEN <<" ", " ">> \o MakeDocstring(node.proof[1].text, 2) \o <<"\n">>
                        ELSE <<>>)
                    \o <<" ", " ", "sorry_using", " ", "[">>
                    \o Join(<<",", " ">>, AllUses(ord.uses, ord.uses_raw)) \o <<"]">>)

\* nodes_topological_order.index(node), 1-based: where the scan of line 177
\* starts
ScanFromStart(order, node) == 1
ScanFrom(order, node) ==
    CHOOSE i \in 1..Len(order) :
        order[i] = node /\ \A j \in 1..Len(order) : order[j] = node => i <= j

\* the text written to the root file  (lines 207-215)
OverflowTextDropsExisting(existing, extra) ==
    ImportArchitect \o <<"\n", "\n">> \o Join(<<"\n", "\n">>, extra) \o <<"\n">>
OverflowText(existing, extra) ==
    existing \o ImportArchitect \o <<"\n", "\n">> \o Join(<<"\n", "\n">>, extra) \o <<"\n">>

\* nodes_location_order = sorted(...)  (lines 137-142), then the call of
\* topological_sort
WbaStart ==
    /\ pc = "wba"
    /\ nodes_location_order' = SortedReverse(nodes)
    /\ pc' = "sort"
    /\ UNCHANGED <<nodes, spliceVars, nodes_topological_order, prepends, extra_nodes,
                   modified_files, wi, import_todo, files0, stub_of>>

\* nodes_topological_order = [n for n, _ in topological_sort(...)], prepends
\* and extra_nodes  (lines 143-155)
WbaPlanStart ==
    /\ pc = "sorted"
    /\ nodes_topological_order' = [i \in 1..Len(result) |-> NameToNode(nodes, result[i])]
    /\ prepends' = [n \in NameToNodeKeys(nodes) |-> <<>>]
    /\ extra_nodes' = <<>>
    /\ wi' = 1
    /\ pc' = "plan"
    /\ UNCHANGED <<nodes, spliceVars, nodes_location_order, modified_files, import_todo,
                   files0, stub_of>>

\* one turn of `for node in nodes_topological_order`  (lines 175-182)
WbaPlan ==
    /\ pc = "plan"
    /\ wi <= Len(nodes_topological_order)
    /\ LET order == nodes_topological_order
           node  == order[wi]
       IN  IF IsUpstreamOrInformal(node)
           THEN \E ord \in SetOrders(node) :
                  LET stub == UpstreamOrInformalToLean(node, ord)
                      hits == {j \in ScanFrom(order, node)..Len(order) :
                                 /\ ~IsUpstreamOrInformal(order[j])
                                 /\ node.name \in NodeUses(order[j])}
                  IN  /\ stub_of' = [stub_of EXCEPT ![node.name] = stub]
                      /\ IF hits # {}
                         THEN LET first == CHOOSE j \in hits : \A k \in hits : j <= k IN
                              /\ prepends' = [prepends EXCEPT ![order[first].name] =
                                                 Append(@, stub)]
                              /\ UNCHANGED extra_nodes
                         ELSE /\ extra_nodes' = Append(extra_nodes, stub)
                              /\ UNCHANGED prepends
           ELSE UNCHANGED <<prepends, extra_nodes, stub_of>>
    /\ wi' = wi + 1
    /\ UNCHANGED <<pc, nodes, spliceVars, nodes_location_order, nodes_topological_order,
                   modified_files, import_todo, files0>>

\* modified_files = set()  (line 185)
WbaPlanDone ==
    /\ pc = "plan"
    /\ wi > Len(nodes_topological_order)
    /\ modified_files' = {}
    /\ wi' = 1
    /\ pc' = "main"
    /\ UNCHANGED <<nodes, spliceVars, nodes_location_order, nodes_topological_order,
                   prepends, extra_nodes, import_todo, files0, stub_of>>

\* one turn of `for node in nodes_location_order`, up to the call of
\* modify_source  (lines 187-194)
WbaNext ==
    /\ pc = "main"
    /\ ms.stage = "idle"
    /\ wi <= Len(nodes_location_order)
    /\ LET node == nodes_location_order[wi] IN
       IF IsUpstreamOrInformal(node)
       THEN /\ wi' = wi + 1
            /\ UNCHANGED <<pc, ms>>
       ELSE IF ~(node.has_lean /\ node.file # NoneVal /\ node.location # NoneVal)
       THEN /\ pc' = "AssertionError"
            /\ UNCHANGED <<wi, ms>>
       ELSE /\ ms' = Call(node, node.file[1], node.location[1], WriteAddUses,
                          Some(prepends[node.name]))
            /\ UNCHANGED <<pc, wi>>
    /\ UNCHANGED <<nodes, files, warned_to_additive, runs, target, spliceLog,
                   nodes_location_order, nodes_topological_order, prepends, extra_nodes,
                   modified_files, import_todo, files0, stub_of>>

\* modify_source has returned: modified_files.add(node.file)  (line 195)
WbaReturn ==
    /\ pc = "main"
    /\ ms.stage = "written"
    /\ modified_files' = modified_files \cup {ms.file}
    /\ wi' = wi + 1
    /\ ms' = IdleCall
    /\ UNCHANGED <<pc, nodes, files, warned_to_additive, runs, target, spliceLog,
                   nodes_location_order, nodes_topological_order, prepends, extra_nodes,
                   import_todo, files0, stub_of>>

\* the loop of line 187 is over
WbaMainDone ==
    /\ pc = "main"
    /\ ms.stage = "idle"
    /\ wi > Len(nodes_location_order)
    /\ import_todo' = modified_files
    /\ pc' = "imports"
    /\ UNCHANGED <<nodes, spliceVars, nodes_location_order, nodes_topological_order,
                   prepends, extra_nodes, modified_files, wi, files0, stub_of>>

\* one turn of `for file in modified_files`, a set  (lines 197-198)
WbaImport ==
    /\ pc = "imports"
    /\ \E file \in import_todo :
          /\ files' = [files EXCEPT ![file] = AddBlueprintGenImport(files[file])]
          /\ import_todo' = import_todo \ {file}
    /\ UNCHANGED <<pc, nodes, ms, warned_to_additive, runs, target, spliceLog,
                   nodes_location_order, nodes_topological_order, prepends, extra_nodes,
                   modified_files, wi, files0, stub_of>>

\* if extra_nodes: ... extra_nodes_file.write_text(...)  (lines 201-215)
WbaWriteExtra ==
    /\ pc = "imports"
    /\ import_todo = {}
    /\ extra_nodes # <<>>
    /\ LET existing == IF RootFile \in DOMAIN files THEN files[RootFile] ELSE <<>> IN
       files' = [f \in DOMAIN files \cup {RootFile} |->
                    IF f = RootFile THEN OverflowText(existing, extra_nodes)
                    ELSE files[f]]
    /\ pc' = "done"
    /\ UNCHANGED <<nodes, ms, warned_to_additive, runs, target, spliceLog, writeVars>>

\* no extra nodes: the root file is left alone
WbaNoExtra ==
    /\ pc = "imports"
    /\ import_todo = {}
    /\ extra_nodes = <<>>
    /\ pc' = "done"
    /\ UNCHANGED <<nodes, spliceVars, writeVars>>

(***************************************************************************)
(* write_blueprint_attributes on a project of two target files, an         *)
(* upstream file and the root file                                         *)
(***************************************************************************)
WriteMaxEdges == 2

\* the declarations of the project: two of A.lean (1 and 2, each starting on
\* a line of its own, or 4 and 5, one after the other on one line), one of
\* B.lean (3)
SlotDecl(k) ==
    CASE k = 1 -> <<"theorem", " ", "x", "\n", " ", " ", "b">>
      [] k = 2 -> <<"@[", "simp", "]", "\n", "def", " ", "y", "\n", " ", " ", "sorry">>
      [] k = 3 -> <<"/--", " ", "x", " ", "-/", "\n", "theorem", " ", "z">>
      [] k = 4 -> <<"def", " ", "x", " ", ":=", " ", "b">>
      [] k = 5 -> <<"def", " ", "y", " ", ":=", " ", "sorry">>
SlotFile(k) == IF k = 3 THEN "B.lean" ELSE "A.lean"
SlotModule(k) == IF k = 3 THEN <<"M", "B">> ELSE <<"M", "A">>

\* the two declarations of A.lean are on one line
OneLine(env) == 4 \in Range(env.slots)

\* the project before the run: the text above the declarations of A.lean and
\* of B.lean, the root file if it exists, the declarations that the placeable
\* nodes are at (in the order of the node list), and whether Lean reports
\* has_lean for node c
WriteEnvs ==
    {[headA |-> <<>>, headB |-> <<>>, root |-> NoneVal, slots |-> <<1, 2, 3>>,
      has_lean |-> TRUE],
     [headA |-> <<"import ", "X", "\n", "import ", "Y", "\n", "\n">>,
      headB |-> <<"-- c", "\n", "public ", "import ", "X", "\n", "import ", "Y", "\n", "\n">>,
      root |-> Some(<<"import ", "X", "\n">>), slots |-> <<3, 1, 2>>, has_lean |-> TRUE],
     [headA |-> <<"-- c", "\n", "import ", "X", "\n", "\n">>,
      headB |-> <<>>, root |-> Some(<<"-- o">>), slots |-> <<2, 3, 1>>,
      has_lean |-> FALSE],
     [headA |-> <<"import ", "X", "\n", "\n">>, headB |-> <<>>, root |-> NoneVal,
      slots |-> <<4, 5, 3>>, has_lean |-> TRUE],
     [headA |-> <<>>, headB |-> <<>>, root |-> NoneVal, slots |-> <<5, 4, 3>>,
      has_lean |-> TRUE]}

WriteFiles(env) ==
    [f \in {"A.lean", "B.lean", "Up.lean"} \cup (IF env.root = NoneVal THEN {} ELSE {RootFile}) |->
        CASE f = "A.lean" ->
               IF OneLine(env)
               THEN env.headA \o SlotDecl(4) \o <<" ">> \o SlotDecl(5) \o <<"\n">>
               ELSE env.headA \o SlotDecl(1) \o <<"\n", "\n">> \o SlotDecl(2) \o <<"\n">>
          [] f = "B.lean" -> env.headB \o SlotDecl(3) \o <<"\n">>
          [] f = "Up.lean" -> <<"theorem", " ", "b">>
          [] OTHER -> env.root[1]]

SlotOffset(env, k) ==
    CASE k = 1 -> Len(env.headA)
      [] k = 2 -> Len(env.headA) + Len(SlotDecl(1)) + 2
      [] k = 3 -> Len(env.headB)
      [] k = 4 -> Len(env.headA)
      [] k = 5 -> Len(env.headA) + Len(SlotDecl(4)) + 1

SlotLocation(env, k) ==
    LocationAt(SlotModule(k), WriteFiles(env)[SlotFile(k)], SlotOffset(env, k),
               Len(SlotDecl(k)))

WriteEdgeSets == {E \in SUBSET (NameSet \X NameSet) : Cardinality(E) <= WriteMaxEdges}

\* The node of a name: a is a definition, b a theorem with an empty proof
\* text, c a titled theorem with a proof text and an unresolved label.  The
\* uses of c are uses of its proof.  A node that is not placeable is informal
\* (a, c: no location) or upstream (b: a location outside the modules).
WriteNode(name, E, placed, env) ==
    LET uses == {e[2] : e \in {d \in E : d[1] = name}}
        k == Cardinality({i \in 1..Len(Names) :
                            Names[i] \in placed /\ i <= (CHOOSE j \in 1..Len(Names) : Names[j] = name)})
        location ==
            IF name \in placed THEN Some(SlotLocation(env, env.slots[k]))
            ELSE IF name = "b"
            THEN Some(DeclarationLocation(<<"Up", "X">>, Position(1, 0), Position(1, 3)))
            ELSE NoneVal
        file == IF name \in placed THEN Some(SlotFile(env.slots[k]))
                ELSE IF name = "b" THEN Some("Up.lean") ELSE NoneVal
        node ==
            CASE name = "a" ->
                   MkNode("a", NoneVal, NodePart(<<"s">>, uses, {}, "definition"),
                          NoneVal, FALSE, NoneVal, location, file)
              [] name = "b" ->
                   MkNode("b", NoneVal, NodePart(<<>>, uses, {}, "theorem"),
                          Some(NodePart(<<>>, {}, {}, "proof")), FALSE, NoneVal,
                          location, file)
              [] name = "c" ->
                   MkNode("c", Some(<<"t">>), NodePart(<<"s", "\n", "t">>, {}, {"l"}, "theorem"),
                          Some(NodePart(<<"p">>, uses, {}, "proof")), FALSE, NoneVal,
                          location, file)
    IN  IF name = "c" /\ name \in placed
        THEN [node EXCEPT !.has_lean = env.has_lean] ELSE node

InitWrite ==
    /\ pc = "wba"
    /\ visited = {}
    /\ result = <<>>
    /\ stack = <<>>
    /\ idx = 1
    /\ ms = IdleCall
    /\ warned_to_additive = FALSE
    /\ runs = 0
    /\ target = [pre |-> <<>>, decl |-> <<>>, post |-> <<>>]
    /\ spliceLog = <<>>
    /\ nodes_location_order = <<>>
    /\ nodes_topological_order = <<>>
    /\ prepends = <<>>
    /\ extra_nodes = <<>>
    /\ modified_files = {}
    /\ wi = 1
    /\ import_todo = {}
    /\ stub_of = [n \in NameSet |-> <<>>]
    /\ RefIdle
    /\ ReadIdle
    /\ ParseIdle
    /\ GenIdle
    /\ AttrIdle
    /\ \E env \in WriteEnvs, E \in WriteEdgeSets, placed \in SUBSET NameSet :
          /\ nodes = [i \in 1..Len(Names) |-> WriteNode(Names[i], E, placed, env)]
          /\ files = WriteFiles(env)
          /\ files0 = WriteFiles(env)

NextWrite ==
    \/ (WbaStart /\ UNCHANGED writeFrame)
    \/ SortVisitTop
    \/ SortIter
    \/ SortReturn
    \/ SortDone
    \/ (WbaPlanStart /\ UNCHANGED writeFrame)
    \/ (WbaPlan /\ UNCHANGED writeFrame)
    \/ (WbaPlanDone /\ UNCHANGED writeFrame)
    \/ (WbaNext /\ UNCHANGED writeFrame)
    \/ (MsSplit /\ UNCHANGED spliceFrame)
    \/ (MsInsert /\ UNCHANGED spliceFrame)
    \/ (MsWrite /\ UNCHANGED spliceFrame)
    \/ (WbaReturn /\ UNCHANGED writeFrame)
    \/ (WbaMainDone /\ UNCHANGED writeFrame)
    \/ (WbaImport /\ UNCHANGED writeFrame)
    \/ (WbaWriteExtra /\ UNCHANGED writeFrame)
    \/ (WbaNoExtra /\ UNCHANGED writeFrame)

SpecWrite == InitWrite /\ [][NextWrite]_vars

(***************************************************************************)
(* Properties of write_blueprint_attributes                                *)
(***************************************************************************)
\* a node with no location, or with a location outside the target modules
NonPlaceable(n) ==
    n.location = NoneVal \/ n.location[1].module[1] \notin WriteModules

\* the planning loop is over
PlanOver == pc \in {"main", "imports", "done", "AssertionError"}

TopoIndex(n) ==
    CHOOSE i \in 1..Len(nodes_topological_order) :
        nodes_topological_order[i].name = n.name

\* the places of the placeable nodes that use n, at or after the place of n in
\* topological order
Consumers(n) ==
    {j \in TopoIndex(n)..Len(nodes_topological_order) :
        /\ ~NonPlaceable(nodes_topological_order[j])
        /\ n.name \in NodeUses(nodes_topological_order[j])}

FirstConsumer(n) == CHOOSE j \in Consumers(n) : \A k \in Consumers(n) : j <= k

CountIn(seq, x) == Cardinality({i \in 1..Len(seq) : seq[i] = x})

RECURSIVE SumOver(_, _)
SumOver(f, S) ==
    IF S = {} THEN 0
    ELSE LET x == CHOOSE y \in S : TRUE IN Len(f[x]) + SumOver(f, S \ {x})

RECURSIVE OverflowStubs(_)
OverflowStubs(order) ==
    IF order = <<>> THEN <<>>
    ELSE (IF NonPlaceable(order[1]) /\ Consumers(order[1]) = {}
          THEN <<stub_of[order[1].name]>> ELSE <<>>)
         \o OverflowStubs(Tail(order))

\* C7: when some stub has no placeable consumer, the root file at the end is
\* its content before the run (nothing, if it did not exist), then the import
\* line, a blank line, and the stubs without consumer, each once, separated by
\* blank lines; no stub that was queued on a node is in it.
C7_OverflowFile ==
    (pc = "done" /\ \E i \in 1..Len(nodes) :
                       NonPlaceable(nodes[i]) /\ Consumers(nodes[i]) = {}) =>
      LET existing == IF RootFile \in DOMAIN files0 THEN files0[RootFile] ELSE <<>>
          stubs == OverflowStubs(nodes_topological_order)
      IN  /\ RootFile \in DOMAIN files
          /\ files[RootFile] =
                existing \o <<"import ", "Architect", "\n", "\n">>
                    \o Join(<<"\n", "\n">>, stubs) \o <<"\n">>
          /\ \A i \in 1..Len(stubs) : CountIn(stubs, stubs[i]) = 1
          /\ \A i \in 1..Len(nodes) :
                (NonPlaceable(nodes[i]) /\ Consumers(nodes[i]) # {}) =>
                    ~Occurs(files[RootFile], stub_of[nodes[i].name])

\* two stubs written after the content of a root file that existed
C7_Witness ==
    /\ pc = "done"
    /\ RootFile \in DOMAIN files0
    /\ files0[RootFile] # <<>>
    /\ Len(extra_nodes) = 2
    /\ Occurs(files[RootFile], extra_nodes[1] \o <<"\n", "\n">> \o extra_nodes[2])

ArchitectLine == <<"import ", "Architect", "\n">>
Without(lines, i) == Take(lines, i - 1) \o Drop(lines, i)
ImportLines(lines) == SelectSeq(lines, IsImportLine)

\* the number of lines up to the end of the leading import block: the run of
\* import lines that starts at the first import line; 0 when there is none
LeadingImportBlockEnd(lines) ==
    LET hits == {i \in 1..Len(lines) : IsImportLine(lines[i])} IN
    IF hits = {} THEN 0
    ELSE LET first == CHOOSE i \in hits : \A j \in hits : i <= j
             ends == {e \in first..Len(lines) : \A k \in first..e : k \in hits}
         IN  CHOOSE e \in ends : \A k \in ends : k <= e

\* the number of lines before the first import line; 0 when there is none
LinesBeforeFirstImport(lines) ==
    LET hits == {i \in 1..Len(lines) : IsImportLine(lines[i])} IN
    IF hits = {} THEN 0
    ELSE (CHOOSE i \in hits : \A j \in hits : i <= j) - 1

\* C8 as stated: in every modified file the new import line is there once,
\* right after the last line of the leading import block.
C8_AfterImportBlock ==
    pc = "done" =>
      \A f \in modified_files :
        LET lines == SplitLines(files[f])
            at == {i \in 1..Len(lines) : lines[i] = ArchitectLine}
        IN  /\ Cardinality(at) = 1
            /\ \A i \in at : i = LeadingImportBlockEnd(Without(lines, i)) + 1

\* C8, amended: in every modified file the new import line is there once,
\* right before the first import line of the file, or first in the file when
\* the file has no import line; the import lines that the file had are kept,
\* and a file in which nothing was spliced is as it was (the root file apart).
C8_BeforeFirstImport ==
    pc = "done" =>
      /\ \A f \in modified_files :
           LET lines == SplitLines(files[f])
               at == {i \in 1..Len(lines) : lines[i] = ArchitectLine}
           IN  /\ Cardinality(at) = 1
               /\ \A i \in at :
                    /\ i = LinesBeforeFirstImport(Without(lines, i)) + 1
                    /\ ImportLines(Without(lines, i)) = ImportLines(SplitLines(files0[f]))
      /\ \A f \in DOMAIN files0 \ (modified_files \cup {RootFile}) : files[f] = files0[f]

\* two declarations of a file with two import lines were spliced, and the
\* file now starts with the one new import line
C8_Witness ==
    /\ pc = "done"
    /\ "A.lean" \in modified_files
    /\ Cardinality({i \in 1..Len(nodes) : nodes[i].file = Some("A.lean")}) = 2
    /\ Len(ImportLines(SplitLines(files0["A.lean"]))) = 2
    /\ StartsWith(files["A.lean"], ArchitectLine \o <<"import ", "X", "\n">>)

\* C13 as stated: whenever write_blueprint_attributes splices a node, the
\* text that modify_source finds at the node's recorded range is the text that
\* was at that range before the run: nothing spliced or prepended earlier in
\* the run has moved or changed it.
C13_RangeStillOriginal ==
    (pc = "main" /\ ms.stage \in {"split", "inserted", "written"}) =>
        ms.decl = SplitDeclaration(files0[ms.file], ms.location.range.pos,
                                   ms.location.range.end_pos).decl

(***************************************************************************)
(* parse_latex.py: convert_ref_to_verb                                     *)
(***************************************************************************)
\* ref_commands  (line 136)
RefCommands == {"\\ref", "\\cref", "\\Cref", "\\vref", "\\eqref", "\\autoref"}

\* str.split(sep), for a separator of one symbol
RECURSIVE SplitOn(_, _)
SplitOn(s, sep) ==
    LET k == FirstAt(s, sep, 1) IN
    IF k = 0 THEN <<s>>
    ELSE <<Take(s, k - 1)>> \o SplitOn(Drop(s, k), sep)

\* `"_" in label`  (line 125)
HasUnderscoreNever(label) == FALSE
HasUnderscore(label) == "_" \in Range(label)

\* replace_ref(match), for the text of group 1  (lines 118-133)
ReplaceRef(content, map) ==
    LET parts  == SplitOn(content, ",")
        labels == [i \in 1..Len(parts) |-> Strip(parts[i])]
        output == [i \in 1..Len(labels) |->
                     IF labels[i] \in DOMAIN map
                     THEN <<"\\verb", "|">> \o map[labels[i]] \o <<"|">>
                     ELSE IF HasUnderscore(labels[i])
                     THEN <<"\\verb", "|">> \o labels[i] \o <<"|">>
                     ELSE <<"\\ref", "{">> \o labels[i] \o <<"}">>]
    IN  Join(<<",", " ">>, output)

\* the match of \\(?:ref|cref|...)\s*\{([^\}]*)\} at the start of s: its
\* length and its group 1, or no match
MatchRef(s) ==
    IF s = <<>> \/ s[1] \notin RefCommands THEN [ok |-> FALSE, len |-> 0, content |-> <<>>]
    ELSE LET ws    == LeadingSpaces(Drop(s, 1))
             open  == 2 + ws
             close == FirstAt(s, "}", open + 1)
         IN  IF open <= Len(s) /\ s[open] = "{" /\ close # 0
             THEN [ok |-> TRUE, len |-> close, content |-> SubSeq(s, open + 1, close - 1)]
             ELSE [ok |-> FALSE, len |-> 0, content |-> <<>>]

\* re.sub(pattern, replace_ref, source): the matches are found from left to
\* right, and a replacement is not searched again  (line 137)
RECURSIVE ReSubRef(_, _)
ReSubRef(s, map) ==
    IF s = <<>> THEN <<>>
    ELSE LET m == MatchRef(s) IN
         IF m.ok THEN ReplaceRef(m.content, map) \o ReSubRef(Drop(s, m.len), map)
         ELSE <<s[1]>> \o ReSubRef(Drop(s, 1), map)

\* source = re.sub(...)  (line 137)
RefSub ==
    /\ pc = "ref"
    /\ ref_source' = ReSubRef(ref_source, label_to_node)
    /\ pc' = "subbed"
    /\ UNCHANGED <<ref_items, label_to_node>>

\* source = source.strip(); return source  (lines 138-139)
RefStrip ==
    /\ pc = "subbed"
    /\ ref_source' = Strip(ref_source)
    /\ pc' = "refdone"
    /\ UNCHANGED <<ref_items, label_to_node>>

(***************************************************************************)
(* The texts that convert_ref_to_verb is run on: a reference command with  *)
(* up to MaxLabels labels, between two pieces of other text                *)
(***************************************************************************)
MaxLabels == 2

RefLabels == {<<"x">>, <<"y">>, <<"u", "_", "v">>}
LabelLists == UNION {[1..n -> RefLabels] : n \in 1..MaxLabels}

\* a piece of plain text, or a reference command: the command, the white space
\* after it, its labels, and whether the labels have spaces around them
TextItem(t) == [cmd |-> "", ws |-> <<>>, labels |-> <<>>, pad |-> FALSE, text |-> t]
RefItem(cmd, ws, labels, pad) ==
    [cmd |-> cmd, ws |-> ws, labels |-> labels, pad |-> pad, text |-> <<>>]

ItemText(it) ==
    IF it.cmd = "" THEN it.text
    ELSE <<it.cmd>> \o it.ws \o <<"{">>
         \o Join(<<",">>, [i \in 1..Len(it.labels) |->
                             IF it.pad THEN <<" ">> \o it.labels[i] \o <<" ">>
                             ELSE it.labels[i]])
         \o <<"}">>

MainItems ==
    {RefItem(cmd, ws, labels, pad) :
        cmd \in RefCommands, ws \in {<<>>, <<" ">>}, labels \in LabelLists, pad \in BOOLEAN}
SideItems ==
    {TextItem(<<>>), TextItem(<<"a", " ">>), TextItem(<<" ", "\\ref", " ">>),
     RefItem("\\cref", <<>>, << <<"y">> >>, FALSE)}

\* label_to_node, as label -> node.name
NodeName(label) == <<"N">> \o label
RefMaps ==
    {[l \in D |-> NodeName(l)] : D \in {{}, {<<"x">>}, {<<"x">>, <<"u", "_", "v">>}}}

InitRef ==
    /\ pc = "ref"
    /\ nodes = <<>>
    /\ visited = {}
    /\ result = <<>>
    /\ stack = <<>>
    /\ idx = 1
    /\ SpliceIdle
    /\ WriteIdle
    /\ ReadIdle
    /\ ParseIdle
    /\ GenIdle
    /\ AttrIdle
    /\ \E pre \in SideItems, main \in MainItems, post \in SideItems :
          /\ ref_items = <<pre, main, post>>
          /\ ref_source = ItemText(pre) \o ItemText(main) \o ItemText(post)
    /\ label_to_node \in RefMaps

NextRef ==
    \/ (RefSub /\ UNCHANGED refFrame)
    \/ (RefStrip /\ UNCHANGED refFrame)

SpecRef == InitRef /\ [][NextRef]_vars

(***************************************************************************)
(* Properties of convert_ref_to_verb                                       *)
(***************************************************************************)
\* what the claim makes of one label
Marker(label) ==
    IF label \in DOMAIN label_to_node
    THEN <<"\\verb", "|">> \o label_to_node[label] \o <<"|">>
    ELSE IF "_" \in Range(label)
    THEN <<"\\verb", "|">> \o label \o <<"|">>
    ELSE <<"\\ref", "{">> \o label \o <<"}">>

ExpectedItem(it) ==
    IF it.cmd = "" THEN it.text
    ELSE Join(<<",", " ">>, [i \in 1..Len(it.labels) |-> Marker(it.labels[i])])

\* the labels of the reference commands of the text
AllLabels == Concat([i \in 1..Len(ref_items) |-> ref_items[i].labels])
Verbatim(label) == label \in DOMAIN label_to_node \/ "_" \in Range(label)

\* C9: every label of every reference command is resolved on its own, in
\* place: a known label becomes a verbatim marker of the node's name, an
\* unknown label with an underscore a verbatim marker of the label, any other
\* label a \ref marker of its own; the markers of one command are joined by
\* ", ".  So the result has one verbatim marker per label of the first two
\* kinds, one \ref marker per label of the third, and no other reference
\* command with an argument.
C9_EachLabelResolved ==
    pc = "refdone" =>
      /\ ref_source = Strip(Concat([i \in 1..Len(ref_items) |-> ExpectedItem(ref_items[i])]))
      /\ Cardinality({i \in 1..Len(ref_source) : ref_source[i] = "\\verb"})
            = Cardinality({i \in 1..Len(AllLabels) : Verbatim(AllLabels[i])})
      /\ Cardinality({i \in 1..Len(ref_source) - 1 :
                        ref_source[i] \in RefCommands /\ ref_source[i + 1] = "{"})
            = Cardinality({i \in 1..Len(AllLabels) : ~Verbatim(AllLabels[i])})
      /\ \A i \in 1..Len(ref_source) - 1 :
            ref_source[i + 1] = "{" => ref_source[i] \notin RefCommands \ {"\\ref"}

\* a reference to `x,y` with only x known: one verbatim marker, of the name of
\* x, and one \ref marker, of y
C9_Witness ==
    /\ pc = "refdone"
    /\ ref_items[2].labels = << <<"x">>, <<"y">> >>
    /\ ref_items[2].cmd = "\\cref"
    /\ DOMAIN label_to_node = {<<"x">>}
    /\ ref_source = <<"\\verb", "|">> \o NodeName(<<"x">>) \o <<"|", ",", " ", "\\ref", "{", "y", "}">>

(***************************************************************************)
(* parse_latex.py: read_latex_file                                         *)
(***************************************************************************)
\* the match of \\input\s*\{([^\}]*)\} at the start of s: its length and its
\* group 1, or no match  (line 30)
MatchInput(s) ==
    IF s = <<>> \/ s[1] # "\\input" THEN [ok |-> FALSE, len |-> 0, content |-> <<>>]
    ELSE LET ws    == LeadingSpaces(Drop(s, 1))
             open  == 2 + ws
             close == FirstAt(s, "}", open + 1)
         IN  IF open <= Len(s) /\ s[open] = "{" /\ close # 0
             THEN [ok |-> TRUE, len |-> close, content |-> SubSeq(s, open + 1, close - 1)]
             ELSE [ok |-> FALSE, len |-> 0, content |-> <<>>]

\* where the first match of the pattern starts in s; 0 when there is none
FirstInput(s) ==
    LET hits == {k \in 1..Len(s) : MatchInput(Drop(s, k - 1)).ok} IN
    IF hits = {} THEN 0 ELSE CHOOSE k \in hits : \A j \in hits : k <= j

\* input_file: the path of group 1, stripped, with ".tex" added when it does
\* not end in it  (lines 22-25)
InputFile(content) ==
    LET input_path == Strip(content) IN
    IF input_path # <<>> /\ input_path[Len(input_path)] = ".tex" THEN input_path
    ELSE input_path \o <<".tex">>

ReadFrame(file) == [file |-> file, stage |-> "call", rest |-> <<>>, acc |-> <<>>]

\* _read returns text to its caller: to replace_input of the calling _read,
\* or, for the first call, to the caller of read_latex_file
ReadReturnText(text) ==
    LET n == Len(read_stack) IN
    IF n = 1
    THEN /\ read_stack' = <<>>
         /\ read_out' = text
         /\ pc' = "readdone"
    ELSE /\ read_stack' = [SubSeq(read_stack, 1, n - 1) EXCEPT
                              ![n - 1].acc = @ \o text]
         /\ UNCHANGED <<read_out, pc>>

\* if file in seen: ... return ""  (lines 16-18)
ReadCircular ==
    /\ pc = "read"
    /\ read_stack # <<>>
    /\ LET top == read_stack[Len(read_stack)] IN
       /\ top.stage = "call"
       /\ top.file \in seen
       /\ ReadReturnText(<<>>)
    /\ UNCHANGED <<tex_files, seen>>

\* seen.add(file); text = file.read_text()  (lines 19-20)
ReadOpen ==
    /\ pc = "read"
    /\ read_stack # <<>>
    /\ LET n == Len(read_stack)
           top == read_stack[n]
       IN  /\ top.stage = "call"
           /\ top.file \notin seen
           /\ seen' = seen \cup {top.file}
           /\ read_stack' = [read_stack EXCEPT ![n].stage = "sub",
                                               ![n].rest = tex_files[top.file]]
    /\ UNCHANGED <<pc, tex_files, read_out>>

\* replace_input for the next match, of a file that does not exist: the text
\* up to the match is kept and the match is replaced by ""  (lines 26-28)
ReadMissing ==
    /\ pc = "read"
    /\ read_stack # <<>>
    /\ LET n == Len(read_stack)
           top == read_stack[n]
           k == FirstInput(top.rest)
           m == MatchInput(Drop(top.rest, k - 1))
       IN  /\ top.stage = "sub"
           /\ k # 0
           /\ InputFile(m.content) \notin DOMAIN tex_files
           /\ read_stack' = [read_stack EXCEPT
                                ![n].acc = @ \o Take(top.rest, k - 1),
                                ![n].rest = Drop(top.rest, k - 1 + m.len)]
    /\ UNCHANGED <<pc, tex_files, seen, read_out>>

\* replace_input for the next match, of a file that exists:
\* return _read(input_file, seen)  (line 29)
ReadCall ==
    /\ pc = "read"
    /\ read_stack # <<>>
    /\ LET n == Len(read_stack)
           top == read_stack[n]
           k == FirstInput(top.rest)
           m == MatchInput(Drop(top.rest, k - 1))
       IN  /\ top.stage = "sub"
           /\ k # 0
           /\ InputFile(m.content) \in DOMAIN tex_files
           /\ read_stack' = Append([read_stack EXCEPT
                                       ![n].acc = @ \o Take(top.rest, k - 1),
                                       ![n].rest = Drop(top.rest, k - 1 + m.len)],
                                   ReadFrame(InputFile(m.content)))
    /\ UNCHANGED <<pc, tex_files, seen, read_out>>

\* no match is left: return text  (lines 30-31)
ReadReturn ==
    /\ pc = "read"
    /\ read_stack # <<>>
    /\ LET top == read_stack[Len(read_stack)] IN
       /\ top.stage = "sub"
       /\ FirstInput(top.rest) = 0
       /\ ReadReturnText(top.acc \o top.rest)
    /\ UNCHANGED <<tex_files, seen>>

(***************************************************************************)
(* The LaTeX projects that read_latex_file is run on: web.tex (the file    *)
(* read), a.tex and b.tex, each of up to MaxTokens pieces: a letter of its *)
(* own or an \input of web, a, b or c (which does not exist)               *)
(***************************************************************************)
MaxTokens == 2

RootTex == <<"web", ".tex">>
TexNames == {RootTex, <<"a", ".tex">>, <<"b", ".tex">>}
TexLetter(file) == <<file[1]>>
TexInputs ==
    {<<"\\input", "{", "a", "}">>,
     <<"\\input", " ", "{", " ", "b", ".tex", " ", "}">>,
     <<"\\input", "{", "web", ".tex", "}">>,
     <<"\\input", "{", "c", "}">>}
TexTexts(file) ==
    {Concat(t) : t \in UNION {[1..n -> {TexLetter(file)} \cup TexInputs] : n \in 0..MaxTokens}}

InitRead ==
    /\ pc = "read"
    /\ nodes = <<>>
    /\ visited = {}
    /\ result = <<>>
    /\ stack = <<>>
    /\ idx = 1
    /\ SpliceIdle
    /\ WriteIdle
    /\ RefIdle
    /\ ParseIdle
    /\ GenIdle
    /\ AttrIdle
    /\ \E w \in TexTexts(RootTex), a \in TexTexts(<<"a", ".tex">>),
          b \in TexTexts(<<"b", ".tex">>) :
          tex_files = [f \in TexNames |->
                          IF f = RootTex THEN w
                          ELSE IF f = <<"a", ".tex">> THEN a ELSE b]
    /\ seen = {}
    /\ read_stack = <<ReadFrame(RootTex)>>
    /\ read_out = <<>>

NextRead ==
    \/ (ReadCircular /\ UNCHANGED readFrame)
    \/ (ReadOpen /\ UNCHANGED readFrame)
    \/ (ReadMissing /\ UNCHANGED readFrame)
    \/ (ReadCall /\ UNCHANGED readFrame)
    \/ (ReadReturn /\ UNCHANGED readFrame)

SpecRead == InitRead /\ [][NextRead]_vars

(***************************************************************************)
(* Properties of read_latex_file                                           *)
(***************************************************************************)
\* the text s of a file, with every \input of a file that exists and is not
\* in chain replaced by the text of that file, expanded in the same way with
\* the file added to the chain, and every other \input replaced by nothing
RECURSIVE ExpandText(_, _)
ExpandText(s, chain) ==
    LET k == FirstInput(s) IN
    IF k = 0 THEN s
    ELSE LET m == MatchInput(Drop(s, k - 1))
             f == InputFile(m.content)
         IN  Take(s, k - 1)
             \o (IF f \in DOMAIN tex_files /\ f \notin chain
                 THEN ExpandText(tex_files[f], chain \cup {f}) ELSE <<>>)
             \o ExpandText(Drop(s, k - 1 + m.len), chain)

\* C10 as stated: the text returned is the text of the file read with every
\* \input replaced by the fully resolved text of its file, and by nothing
\* only for a file that is missing or is being expanded at that place (the
\* file itself or one of the files that include it there).
C10_InlinedUnlessAncestor ==
    pc = "readdone" => read_out = ExpandText(tex_files[RootTex], {RootTex})

(***************************************************************************)
(* parse_latex.py: generate_new_lean_name                                  *)
(***************************************************************************)
\* how many calls of generate_new_lean_name may be active
MaxDepth == 2

\* the values of uuid.uuid4().hex that are drawn
Uuids == {"e3", "7f"}

Digits == {"0", "1", "2", "3", "4", "5", "6", "7", "8", "9"}

\* base.split(":")[-1]
LastPart(s) ==
    LET parts == SplitOn(s, ":") IN parts[Len(parts)]

\* str.replace(from, to), for one-symbol from and to
ReplaceSymbol(s, from, to) == [i \in 1..Len(s) |-> IF s[i] = from THEN to ELSE s[i]]

\* lines 172-174: the text after the last ":", with "-" and " " replaced by
\* "_", and "_" put before a leading digit
NormalizeBase(base) ==
    LET b == ReplaceSymbol(ReplaceSymbol(LastPart(base), "-", "_"), " ", "_") IN
    IF b # <<>> /\ b[1] \in Digits THEN <<"_">> \o b ELSE b

\* the values that base may have at line 175: a random name when base is
\* None (lines 169-170), the normalised base otherwise
BaseCandidates(base) ==
    IF base = NoneVal THEN {<<"node_", u>> : u \in Uuids}
    ELSE {NormalizeBase(base[1])}

\* `if base not in visited_names`  (line 175)
NameIsFree(base, visited_names) == base \notin visited_names

\* if base not in visited_names: return base  (lines 175-176)
GenReturn ==
    /\ pc = "gen"
    /\ \E base \in BaseCandidates(gen_base) :
          /\ NameIsFree(base, gen_visited)
          /\ gen_out' = Some(base)
    /\ pc' = "gendone"
    /\ UNCHANGED <<gen_visited, gen_base, gen_depth>>

\* return generate_new_lean_name(visited_names, f"{base}_{uuid.uuid4().hex}")
\* (line 177)
GenRecurse ==
    /\ pc = "gen"
    /\ gen_depth < MaxDepth
    /\ \E base \in BaseCandidates(gen_base), u \in Uuids :
          /\ ~NameIsFree(base, gen_visited)
          /\ gen_base' = Some(base \o <<"_", u>>)
    /\ gen_depth' = gen_depth + 1
    /\ UNCHANGED <<pc, gen_visited, gen_out>>

\* the names that generate_new_lean_name(visited_names, base) may return with
\* at most MaxDepth calls active, depth of them active already
RECURSIVE GenerateNewLeanName(_, _, _)
GenerateNewLeanName(visited_names, base, depth) ==
    UNION {IF NameIsFree(b, visited_names) THEN {b}
           ELSE IF depth < MaxDepth
           THEN UNION {GenerateNewLeanName(visited_names, Some(b \o <<"_", u>>), depth + 1) :
                          u \in Uuids}
           ELSE {} :
           b \in BaseCandidates(base)}

(***************************************************************************)
(* The labels and the taken names that generate_new_lean_name is run on    *)
(***************************************************************************)
GenLabels ==
    {<<"a">>, <<"t", ":", "a">>, <<"t", ":">>, <<>>, <<"a", "-", "b">>, <<"a", " ", "b">>,
     <<"1", "a">>, <<"s", ":", "t", ":", "1">>}
GenTaken ==
    {<<>>, <<"a">>, <<"a", "_", "b">>, <<"_", "1">>, <<"a", "_", "e3">>, <<"node_", "e3">>,
     <<"_", "7f">>}

InitName ==
    /\ pc = "gen"
    /\ nodes = <<>>
    /\ visited = {}
    /\ result = <<>>
    /\ stack = <<>>
    /\ idx = 1
    /\ SpliceIdle
    /\ WriteIdle
    /\ RefIdle
    /\ ReadIdle
    /\ ParseIdle
    /\ AttrIdle
    /\ gen_visited \in SUBSET GenTaken
    /\ gen_base \in {NoneVal} \cup {Some(l) : l \in GenLabels}
    /\ gen_out = NoneVal
    /\ gen_depth = 1

NextName ==
    \/ (GenReturn /\ UNCHANGED genFrame)
    \/ (GenRecurse /\ UNCHANGED genFrame)

SpecName == InitName /\ [][NextName]_vars

(***************************************************************************)
(* Properties of generate_new_lean_name                                    *)
(***************************************************************************)
\* C17 as stated: the name returned is not empty and is not a taken name.
C17_NonEmptyAndFree ==
    pc = "gendone" => (gen_out[1] # <<>> /\ gen_out[1] \notin gen_visited)

(***************************************************************************)
(* parse_latex.py: parse_nodes                                             *)
(*                                                                         *)
(* The source is taken as the sequence of the matches of ENV_PATTERN, each *)
(* with the result of process_source on its content: a match is            *)
(*   [env, commented, title, lean, label, proves, uses, notready, text].   *)
(* Match i of the code (0-based) is parse_doc[i + 1].  Names and labels    *)
(* are texts.  A node is referred to by its name, which is its key in      *)
(* name_to_node.                                                           *)
(***************************************************************************)
Occurrence(env, commented, title, lean, label, proves, uses, notready, text) ==
    [env |-> env, commented |-> commented, title |-> title, lean |-> lean,
     label |-> label, proves |-> proves, uses |-> uses, notready |-> notready,
     text |-> text]

\* d[k] = v
Put(d, k, v) == [x \in DOMAIN d \cup {k} |-> IF x = k THEN v ELSE d[x]]

\* `if name in name_to_node`  (line 226)
NameIsKnownNever(name, data) == FALSE
NameIsKnown(name, data) == name \in NameToNodeKeys(data)

\* the place of the node of a name in the node list
NodeIndex(data, name) == CHOOSE k \in 1..Len(data) : data[k].name = name

\* the NodePart of lines 230-234 and 266-270
OccurrencePart(occ) == NodePart(occ.text, {}, occ.uses, occ.env)

\* Node(name=..., statement=..., proof=None, ...)  (line 235)
OccurrenceNode(name, occ) ==
    MkNode(name, occ.title, OccurrencePart(occ), NoneVal, occ.notready, NoneVal,
           NoneVal, NoneVal)

\* the match whose node a proof without \proves is given: i - 1  (lines 258-259)
ProvedIndexNearest(i, m) ==
    LET before == {j \in DOMAIN m : j < i} IN
    IF before = {} THEN 0 ELSE CHOOSE j \in before : \A k \in before : k <= j
ProvedIndex(i, m) == i - 1

\* convert_latex_label_to_lean_name(node_part, label_to_node)  (lines 142-151)
ConvertPart(part, map) ==
    [part EXCEPT
        !.uses = part.uses \cup {map[use] : use \in part.uses_raw \cap DOMAIN map},
        !.uses_raw = part.uses_raw \ DOMAIN map,
        !.text = Strip(ReSubRef(part.text, map))]

\* one turn of the loop over the statements  (lines 205-241)
ParseStatement ==
    /\ pc = "parse_statements"
    /\ pi <= Len(parse_doc)
    /\ LET occ == parse_doc[pi] IN
       IF occ.env = "proof" \/ occ.commented
       THEN UNCHANGED <<nodes, label_to_node, match_idx_to_node, name_to_raw_sources>>
       ELSE IF occ.lean = NoneVal /\ ~convert_informal
       THEN /\ match_idx_to_node' = Put(match_idx_to_node, pi, NoneVal)
            /\ UNCHANGED <<nodes, label_to_node, name_to_raw_sources>>
       ELSE \E name \in (IF occ.lean # NoneVal THEN {occ.lean[1]}
                         ELSE GenerateNewLeanName(NameToNodeKeys(nodes), occ.label, 1)) :
              /\ name_to_raw_sources' =
                    Put(name_to_raw_sources, name,
                        Append(IF name \in DOMAIN name_to_raw_sources
                               THEN name_to_raw_sources[name] ELSE <<>>, pi))
              /\ nodes' = IF NameIsKnown(name, nodes) THEN nodes
                          ELSE Append(nodes, OccurrenceNode(name, occ))
              /\ match_idx_to_node' = Put(match_idx_to_node, pi, Some(name))
              /\ label_to_node' = IF occ.label # NoneVal
                                  THEN Put(label_to_node, occ.label[1], name)
                                  ELSE label_to_node
    /\ pi' = pi + 1
    /\ UNCHANGED <<pc, parse_doc, convert_informal>>

\* the loop over the statements is over
ParseStatementsDone ==
    /\ pc = "parse_statements"
    /\ pi > Len(parse_doc)
    /\ pi' = 1
    /\ pc' = "parse_proofs"
    /\ UNCHANGED <<nodes, label_to_node, parse_doc, convert_informal, match_idx_to_node,
                   name_to_raw_sources>>

\* proved.proof = NodePart(...); name_to_raw_sources[proved.name].append(...)
\* (lines 266-271)
AttachProof(name, occ) ==
    /\ nodes' = [nodes EXCEPT ![NodeIndex(nodes, name)].proof = Some(OccurrencePart(occ))]
    /\ name_to_raw_sources' =
          [name_to_raw_sources EXCEPT ![name] = Append(@, pi)]
    /\ UNCHANGED pc

\* one turn of the loop over the proofs  (lines 244-271).  label_to_node[proves]
\* raises KeyError for a label that is not a key.
ParseProof ==
    /\ pc = "parse_proofs"
    /\ pi <= Len(parse_doc)
    /\ LET occ == parse_doc[pi]
           j   == ProvedIndex(pi, match_idx_to_node)
       IN  IF occ.env # "proof" \/ occ.commented
           THEN UNCHANGED <<pc, nodes, name_to_raw_sources>>
           ELSE IF occ.proves # NoneVal
           THEN IF occ.proves[1] \in DOMAIN label_to_node
                THEN AttachProof(label_to_node[occ.proves[1]], occ)
                ELSE /\ pc' = "KeyError"
                     /\ UNCHANGED <<nodes, name_to_raw_sources>>
           ELSE IF j \in DOMAIN match_idx_to_node
           THEN IF match_idx_to_node[j] = NoneVal
                THEN UNCHANGED <<pc, nodes, name_to_raw_sources>>
                ELSE AttachProof(match_idx_to_node[j][1], occ)
           ELSE UNCHANGED <<pc, nodes, name_to_raw_sources>>
    /\ pi' = pi + 1
    /\ UNCHANGED <<label_to_node, parse_doc, convert_informal, match_idx_to_node>>

\* the loop over the proofs is over
ParseProofsDone ==
    /\ pc = "parse_proofs"
    /\ pi > Len(parse_doc)
    /\ pi' = 1
    /\ pc' = "parse_convert"
    /\ UNCHANGED <<nodes, label_to_node, parse_doc, convert_informal, match_idx_to_node,
                   name_to_raw_sources>>

\* one turn of `for node in nodes`  (lines 274-277)
ParseConvert ==
    /\ pc = "parse_convert"
    /\ pi <= Len(nodes)
    /\ nodes' = [nodes EXCEPT
                   ![pi].statement = ConvertPart(@, label_to_node),
                   ![pi].proof = IF @ = NoneVal THEN @
                                 ELSE Some(ConvertPart(@[1], label_to_node))]
    /\ pi' = pi + 1
    /\ UNCHANGED <<pc, label_to_node, parse_doc, convert_informal, match_idx_to_node,
                   name_to_raw_sources>>

\* return nodes, name_to_raw_sources, label_to_node  (line 279)
ParseReturn ==
    /\ pc = "parse_convert"
    /\ pi > Len(nodes)
    /\ pc' = "parsed"
    /\ UNCHANGED <<nodes, label_to_node, parseVars>>

(***************************************************************************)
(* The documents that parse_nodes is run on: up to MaxOccs matches         *)
(***************************************************************************)
MaxOccs == 3

ParseOccurrences ==
    {Occurrence("theorem", FALSE, NoneVal, Some(<<"a">>), Some(<<"x">>), NoneVal, {}, FALSE,
                <<"s">>),
     Occurrence("theorem", FALSE, Some(<<"T">>), Some(<<"a">>), Some(<<"y">>), NoneVal,
                {<<"x">>}, TRUE, <<"t">>),
     Occurrence("definition", FALSE, NoneVal, NoneVal, Some(<<"t", ":", "a">>), NoneVal,
                {<<"q">>}, FALSE, <<"\\ref", "{", "x", "}">>),
     Occurrence("theorem", TRUE, NoneVal, Some(<<"b">>), Some(<<"x">>), NoneVal, {}, FALSE,
                <<"c">>),
     Occurrence("proof", FALSE, NoneVal, NoneVal, NoneVal, NoneVal, {<<"x">>}, FALSE,
                <<"p">>),
     Occurrence("proof", FALSE, NoneVal, NoneVal, NoneVal, Some(<<"y">>), {}, FALSE,
                <<"r">>),
     Occurrence("proof", FALSE, NoneVal, NoneVal, NoneVal, Some(<<"q">>), {}, FALSE,
                <<"w">>),
     Occurrence("proof", TRUE, NoneVal, NoneVal, NoneVal, NoneVal, {}, FALSE, <<"c">>)}

InitParse ==
    /\ pc = "parse_statements"
    /\ nodes = <<>>
    /\ visited = {}
    /\ result = <<>>
    /\ stack = <<>>
    /\ idx = 1
    /\ SpliceIdle
    /\ WriteIdle
    /\ RefIdle
    /\ ReadIdle
    /\ GenIdle
    /\ AttrIdle
    /\ parse_doc \in UNION {[1..n -> ParseOccurrences] : n \in 0..MaxOccs}
    /\ convert_informal \in BOOLEAN
    /\ match_idx_to_node = <<>>
    /\ name_to_raw_sources = <<>>
    /\ pi = 1

NextParse ==
    \/ (ParseStatement /\ UNCHANGED parseFrame)
    \/ (ParseStatementsDone /\ UNCHANGED parseFrame)
    \/ (ParseProof /\ UNCHANGED parseFrame)
    \/ (ParseProofsDone /\ UNCHANGED parseFrame)
    \/ (ParseConvert /\ UNCHANGED parseFrame)
    \/ (ParseReturn /\ UNCHANGED parseFrame)

SpecParse == InitParse /\ [][NextParse]_vars

(***************************************************************************)
(* Properties of parse_nodes                                               *)
(***************************************************************************)
\* the matches that were given a name
NamedMatches == {j \in DOMAIN match_idx_to_node : match_idx_to_node[j] # NoneVal}

\* the first match that was given the name
FirstMatch(name) ==
    LET js == {j \in NamedMatches : match_idx_to_node[j][1] = name} IN
    CHOOSE j \in js : \A k \in js : j <= k

\* the last named match that carries the label
LastLabelled(label) ==
    LET js == {j \in NamedMatches : parse_doc[j].label = Some(label)} IN
    CHOOSE j \in js : \A k \in js : k <= j

\* node k has been through convert_latex_label_to_lean_name
Converted(k) == pc = "parsed" \/ (pc = "parse_convert" /\ k < pi)

ParseRunning ==
    pc \in {"parse_statements", "parse_proofs", "parse_convert", "parsed", "KeyError"}

\* C11: no two nodes of parse_nodes have the same identifier; the nodes are
\* exactly the distinct identifiers of the statement occurrences, so a repeated
\* identifier makes no new node; the node of an identifier keeps the title, the
\* not_ready flag and the statement part of the first occurrence with that
\* identifier (passed through the label conversion once the last loop has
\* reached it); and the label of every named occurrence maps to the node of
\* its identifier, as long as no later occurrence carries the same label.
C11_UniqueFirstWins ==
    ParseRunning =>
        /\ \A k, l \in 1..Len(nodes) : nodes[k].name = nodes[l].name => k = l
        /\ NameToNodeKeys(nodes) = {match_idx_to_node[j][1] : j \in NamedMatches}
        /\ \A k \in 1..Len(nodes) :
              LET first == parse_doc[FirstMatch(nodes[k].name)] IN
              /\ nodes[k].title = first.title
              /\ nodes[k].not_ready = first.notready
              /\ nodes[k].statement =
                    IF Converted(k) THEN ConvertPart(OccurrencePart(first), label_to_node)
                    ELSE OccurrencePart(first)
        /\ \A j \in NamedMatches :
              parse_doc[j].label # NoneVal =>
                 LET label == parse_doc[j].label[1] IN
                 /\ label \in DOMAIN label_to_node
                 /\ label_to_node[label] = match_idx_to_node[LastLabelled(label)][1]
                 /\ label_to_node[label] \in NameToNodeKeys(nodes)

\* parse_nodes has returned for a document in which an identifier repeats,
\* the repeated occurrence has a label of its own and a text of its own, and
\* that label maps to the one node of the identifier
C11_Witness ==
    /\ pc = "parsed"
    /\ \E j \in NamedMatches :
          LET name == match_idx_to_node[j][1] IN
          /\ FirstMatch(name) < j
          /\ parse_doc[j].label # NoneVal
          /\ parse_doc[j].label # parse_doc[FirstMatch(name)].label
          /\ parse_doc[j].text # parse_doc[FirstMatch(name)].text
          /\ label_to_node[parse_doc[j].label[1]] = name
          /\ Len(nodes) < Cardinality(NamedMatches)

\* the proofs with no \proves that the loop over the proofs has been through
InferredProofs ==
    {j \in 1..Len(parse_doc) :
        /\ parse_doc[j].env = "proof"
        /\ ~parse_doc[j].commented
        /\ parse_doc[j].proves = NoneVal
        /\ (pc \in {"parse_convert", "parsed"} \/ (pc = "parse_proofs" /\ j < pi))}

\* the names to whose raw sources match j was added
AttachedTo(j) ==
    {name \in DOMAIN name_to_raw_sources : j \in Range(name_to_raw_sources[name])}

\* the statements before match j that are not commented out
StatementsBefore(j) ==
    {k \in 1..(j - 1) : parse_doc[k].env # "proof" /\ ~parse_doc[k].commented}

\* C14 as stated: a proof with no \proves goes to the node of the nearest
\* statement before it, whatever lies between them; it is skipped if that
\* statement has no node, and dropped if there is no statement before it.
C14_NearestStatement ==
    \A j \in InferredProofs :
        LET before == StatementsBefore(j) IN
        IF before = {} THEN AttachedTo(j) = {}
        ELSE LET k == CHOOSE x \in before : \A y \in before : y <= x IN
             IF match_idx_to_node[k] = NoneVal THEN AttachedTo(j) = {}
             ELSE AttachedTo(j) = {match_idx_to_node[k][1]}

\* C14, amended: a proof with no \proves goes to the node of the match right
\* before it, when that match is a statement that is not commented out and
\* has a node; it is skipped when that statement has no node, and dropped when
\* the match right before it is a proof or is commented out, or when the proof
\* is the first match, also if there are statements further up.
C14_MatchRightBefore ==
    \A j \in InferredProofs :
        IF j - 1 \in NamedMatches
        THEN AttachedTo(j) = {match_idx_to_node[j - 1][1]}
        ELSE AttachedTo(j) = {}

\* parse_nodes has returned for a document with a statement, its proof and a
\* second proof right after: the first proof is the statement's, the second
\* one is dropped
C14_Witness ==
    /\ pc = "parsed"
    /\ \E j \in InferredProofs :
          /\ j - 1 \in InferredProofs
          /\ j - 2 \in NamedMatches
          /\ AttachedTo(j - 1) = {match_idx_to_node[j - 2][1]}
          /\ nodes[NodeIndex(nodes, match_idx_to_node[j - 2][1])].proof =
                Some(ConvertPart(OccurrencePart(parse_doc[j - 1]), label_to_node))
          /\ AttachedTo(j) = {}

\* the proofs whose \proves label is not a key of label_to_node, once the loop
\* over the statements is over
UnresolvedProofs ==
    {j \in 1..Len(parse_doc) :
        /\ pc # "parse_statements"
        /\ parse_doc[j].env = "proof"
        /\ ~parse_doc[j].commented
        /\ parse_doc[j].proves # NoneVal
        /\ parse_doc[j].proves[1] \notin DOMAIN label_to_node}

\* C15 as stated: a proof whose \proves label is not in the label map does
\* not stop parse_nodes: no exception is raised, the proof is attached to no
\* node, and the loops go on to the return.
C15_UnresolvedIsDropped ==
    /\ pc # "KeyError"
    /\ \A j \in UnresolvedProofs : AttachedTo(j) = {}

(***************************************************************************)
(* common.py: Node.to_lean_attribute on its own                            *)
(***************************************************************************)
\* most uses, and most raw uses, of a statement
MaxUses == 2

AttrNames == {"b", "c", "d"}
AttrLabels == {"k", "l", "m"}
AttrUses == {S \in SUBSET AttrNames : Cardinality(S) <= MaxUses}
AttrUsesRaw == {S \in SUBSET AttrLabels : Cardinality(S) <= MaxUses}
AttrProofs ==
    {NoneVal} \cup {Some(NodePart(<<"p">>, u, r, "proof")) : u \in {{}, {"b"}},
                                                              r \in {{}, {"l"}}}
AttrNodes ==
    {MkNode("a", NoneVal, NodePart(<<"s">>, u, r, "theorem"), p, FALSE, NoneVal, NoneVal,
            NoneVal) : u \in AttrUses, r \in AttrUsesRaw, p \in AttrProofs}
AttrFlagSets ==
    {AttributeFlags(st, u, ur, pt, pu, pur) :
        st \in BOOLEAN, u \in BOOLEAN, ur \in BOOLEAN, pt \in BOOLEAN, pu \in BOOLEAN,
        pur \in BOOLEAN}

\* node.to_lean_attribute(...)  (lines 57-86)
AttrRender ==
    /\ pc = "attr"
    /\ \E ord \in SetOrders(attr_node) :
          attr_out' = Some(ToLeanAttribute(attr_node, attr_flags, ord))
    /\ pc' = "attrdone"
    /\ UNCHANGED <<attr_node, attr_flags>>

InitAttr ==
    /\ pc = "attr"
    /\ nodes = <<>>
    /\ visited = {}
    /\ result = <<>>
    /\ stack = <<>>
    /\ idx = 1
    /\ SpliceIdle
    /\ WriteIdle
    /\ RefIdle
    /\ ReadIdle
    /\ ParseIdle
    /\ GenIdle
    /\ attr_node \in AttrNodes
    /\ attr_flags \in AttrFlagSets
    /\ attr_out = NoneVal

NextAttr == AttrRender /\ UNCHANGED attrFrame

SpecAttr == InitAttr /\ [][NextAttr]_vars

(***************************************************************************)
(* Properties of Node.to_lean_attribute                                    *)
(***************************************************************************)
\* the number of places of seq that hold x
CountSymbol(seq, x) == Cardinality({i \in 1..Len(seq) : seq[i] = x})

\* the items of a list, as written: bare, or in double quotes
BareItems(order) == [i \in 1..Len(order) |-> <<order[i]>>]
QuotedItems(order) == [i \in 1..Len(order) |-> <<"\"", order[i], "\"">>]

\* out has one entry for key, holding the resolved uses bare and then the raw
\* uses in quotes, in one list
OneList(out, key, uses, uses_raw) ==
    /\ CountSymbol(out, key) = 1
    /\ \E o1 \in SeqsOf(uses), o2 \in SeqsOf(uses_raw) :
          Occurs(out, <<"(", key, "[">>
                        \o Join(<<",", " ">>, BareItems(o1) \o QuotedItems(o2))
                        \o <<"]", ")">>)

\* out has two entries for key, one right after the other: the first holds
\* the resolved uses bare, the second the raw uses in quotes
TwoLists(out, key, uses, uses_raw) ==
    /\ CountSymbol(out, key) = 2
    /\ \E o1 \in SeqsOf(uses), o2 \in SeqsOf(uses_raw) :
          Occurs(out, <<"(", key, "[">> \o Join(<<",", " ">>, BareItems(o1))
                        \o <<"]", ")", "\n", " ", " ", "(", key, "[">>
                        \o Join(<<",", " ">>, QuotedItems(o2)) \o <<"]", ")">>)

\* both kinds of uses of the statement are there and asked for
BothUses ==
    /\ pc = "attrdone"
    /\ attr_flags.add_uses /\ attr_flags.add_uses_raw
    /\ attr_node.statement.uses # {} /\ attr_node.statement.uses_raw # {}

\* both kinds of uses of the proof are there and asked for
BothProofUses ==
    /\ pc = "attrdone"
    /\ attr_node.proof # NoneVal
    /\ attr_flags.add_proof_uses /\ attr_flags.add_proof_uses_raw
    /\ attr_node.proof[1].uses # {} /\ attr_node.proof[1].uses_raw # {}

\* C16 as stated: with both kinds of uses of a part present and asked for, the
\* attribute has a single uses (proofUses) entry, whose list holds the
\* resolved uses bare and the raw uses in quotes.
C16_OneList ==
    /\ BothUses =>
          OneList(attr_out[1], "uses := ", attr_node.statement.uses,
                  attr_node.statement.uses_raw)
    /\ BothProofUses =>
          OneList(attr_out[1], "proofUses := ", attr_node.proof[1].uses,
                  attr_node.proof[1].uses_raw)

\* C16, amended: with both kinds of uses of a part present and asked for, the
\* attribute has two uses (proofUses) entries, one right after the other: the
\* first with the resolved uses bare, the second with the raw uses in quotes.
C16_TwoLists ==
    /\ BothUses =>
          TwoLists(attr_out[1], "uses := ", attr_node.statement.uses,
                   attr_node.statement.uses_raw)
    /\ BothProofUses =>
          TwoLists(attr_out[1], "proofUses := ", attr_node.proof[1].uses,
                   attr_node.proof[1].uses_raw)

\* an attribute rendered for a node with two resolved and two raw uses in its
\* statement and one of each in its proof, all asked for
C16_Witness ==
    /\ BothUses
    /\ BothProofUses
    /\ Cardinality(attr_node.statement.uses) = 2
    /\ Cardinality(attr_node.statement.uses_raw) = 2
    /\ CountSymbol(attr_out[1], "uses := ") = 2
    /\ CountSymbol(attr_out[1], "proofUses := ") = 2

====
